---------------------------- MODULE Spec2Model ----------------------------
(***************************************************************************)
(* Model of the midnight-preview-indexer ingestion engine.                 *)
(*                                                                         *)
(* Two programs write the same relational store:                           *)
(*   - the Chain-Source indexer (indexer.ts: indexBlock, startIndexing),   *)
(*   - the importer (midnight-importer.ts: processBatch, importNewBlock,   *)
(*     importFinalizedBlock, insertGraphQLBlock, insertTransaction, ...).  *)
(*                                                                         *)
(* The store is PostgreSQL at READ COMMITTED: every connection's           *)
(* transaction is an overlay of upserted rows over the committed tables;   *)
(* a statement sees the committed rows plus its own overlay; COMMIT merges *)
(* the overlay, ROLLBACK drops it.  A statement error puts the transaction *)
(* in the aborted state, in which every later statement fails and COMMIT   *)
(* acts as ROLLBACK.                                                       *)
(*                                                                         *)
(* Surrogate keys: a row's BIGSERIAL id is represented by the row's unique *)
(* key (transactions: hash; tx_outputs / tx_inputs: <<tx, index>>;         *)
(* accounts: address), except blocks.id, which is drawn from a sequence    *)
(* because account_balances orders by block_id.  tx_outputs.id order is    *)
(* only ever consulted between outputs of equal transaction timestamp,     *)
(* i.e. of one block, where it is (index_in_block, index) order.           *)
(***************************************************************************)
EXTENDS Integers, Sequences, FiniteSets, TLC

\* ------------------------------------------------------------------ bounds
\* Highest block of the chain when startIndexing reads the latest header.
MaxHeight == 3
\* Process starts of the indexer (a crash or exit, then startIndexing again).
MaxRuns == 2
\* Store / RPC failures injected into indexBlock over a behaviour.
MaxFail == 2
\* BATCH_SIZE of indexer.ts is 100; the model runs it scaled down so that a
\* chain of MaxHeight blocks is caught up in more than one batch.
BATCH_SIZE == 2

Heights == 1..MaxHeight

\* ------------------------------------------------------------- value space
NoAddr == "none"
NoNote == "none"
NoOutput == <<>>
NullNum == 0 - 1
NullStr == "null"

\* String.prototype.toLowerCase on the addresses of the model.
Lower(s) == IF s = "C" THEN "c" ELSE s

\* '0'.repeat(62), '0'.repeat(64), and the parent hash of the chain's genesis
\* header as toString() gives it.
Zeros62 == "00000000000000000000000000000000000000000000000000000000000000"
Zeros64 == "0000000000000000000000000000000000000000000000000000000000000000"
ZeroHash == "0x0000000000000000000000000000000000000000000000000000000000000000"

\* hash.toString().substring(2).toLowerCase() on the hashes of the model.
NormHash(s) ==
    CASE s = "0xB0" -> "b0" [] s = "0xB1" -> "b1" [] s = "0xB2" -> "b2"
      [] s = "0xB3" -> "b3" [] s = "0xB4" -> "b4" [] s = "0xB5" -> "b5"
      [] s = "0xB6" -> "b6"
      [] s = "0xE0" -> "e0" [] s = ZeroHash -> Zeros64
      [] s = "0xT1" -> "t1" [] s = "0xT2" -> "t2" [] s = "0xT3" -> "t3"
      [] s = "0xT4" -> "t4" [] s = "0xT5" -> "t5" [] s = "0xT6" -> "t6"
      [] OTHER -> s

\* ------------------------------------------------------------ Chain Source
\* Events as api.query.system.events.at(hash) yields them, already attached
\* to their extrinsic (phase.ApplyExtrinsic).
EvTransfer(from, to, amount) ==
    [kind |-> "Transfer", from |-> from, to |-> to, amount |-> amount, commitment |-> NoNote]
EvShielded(amount, commitment) ==
    [kind |-> "Shielded", from |-> NoAddr, to |-> NoAddr, amount |-> amount, commitment |-> commitment]
EvFee(amount) ==
    [kind |-> "Fee", from |-> NoAddr, to |-> NoAddr, amount |-> amount, commitment |-> NoNote]
EvFailed ==
    [kind |-> "Failed", from |-> NoAddr, to |-> NoAddr, amount |-> 0, commitment |-> NoNote]

Ext(hash, section, method, signer, args, events) ==
    [hash |-> hash, section |-> section, method |-> method,
     isSigned |-> signer # NoAddr, signer |-> signer, args |-> args, events |-> events]

ExtTimestamp == Ext("0xE0", "timestamp", "set", NoAddr, <<>>, <<>>)

BlockHashOf(h) == CASE h < 0 -> ZeroHash [] h = 0 -> "0xB0" [] h = 1 -> "0xB1"
                    [] h = 2 -> "0xB2" [] h = 3 -> "0xB3" [] h = 4 -> "0xB4"
                    [] h = 5 -> "0xB5" [] OTHER -> "0xB6"
TxHashOf(h) == CASE h = 1 -> "0xT1" [] h = 2 -> "0xT2" [] h = 3 -> "0xT3" [] h = 4 -> "0xT4"
                 [] h = 5 -> "0xT5" [] OTHER -> "0xT6"

ChainBlock(h, exts) ==
    [hash |-> BlockHashOf(h), parentHash |-> BlockHashOf(h - 1), exts |-> exts]

\* Scenario 1: unshielded transfers.  Block 1 pays b twice; blocks 2.. are
\* spends by b that each can be covered by an output of block 1.
TransferExts(h) ==
    IF h = 1
    THEN <<ExtTimestamp,
           Ext(TxHashOf(1), "balances", "transfer", "a", <<"b", 2>>,
               <<EvFee(1), EvTransfer("a", "b", 2), EvTransfer("a", "b", 1)>>)>>
    ELSE IF h = 2
    THEN <<Ext(TxHashOf(2), "balances", "transfer", "b", <<"a", 1>>,
               <<EvTransfer("b", "a", 1)>>)>>
    ELSE <<Ext(TxHashOf(h), "balances", "transfer", "b", <<"C", 1>>,
               <<EvTransfer("b", "C", 1), EvFailed>>)>>

\* Scenario 2: shielded events.  Block 1 creates note n1, block 2 names the
\* same commitment again, later blocks are unshielded self-transfers.
ShieldedExts(h) ==
    IF h = 1
    THEN <<ExtTimestamp,
           Ext(TxHashOf(1), "midnightTx", "sendMnTransaction", NoAddr, <<>>,
               <<EvShielded(2, "n1")>>)>>
    ELSE IF h = 2
    THEN <<Ext(TxHashOf(2), "midnightTx", "sendMnTransaction", NoAddr, <<>>,
               <<EvShielded(1, "n1")>>)>>
    ELSE <<Ext(TxHashOf(h), "balances", "transfer", "a", <<"a", 1>>,
               <<EvTransfer("a", "a", 1)>>)>>

\* Scenario 3: every block names the commitment n1, the latest block too.
NotesExts(h) ==
    IF h <= 2 THEN ShieldedExts(h)
    ELSE <<Ext(TxHashOf(h), "midnightTx", "sendMnTransaction", NoAddr, <<>>,
               <<EvShielded(1, "n1")>>)>>

\* A chain whose addresses keep their case: a pays C, then C pays a back.
MixedExts(h) ==
    IF h = 1
    THEN <<ExtTimestamp,
           Ext(TxHashOf(1), "balances", "transfer", "a", <<"C", 2>>,
               <<EvTransfer("a", "C", 2)>>)>>
    ELSE <<Ext(TxHashOf(h), "balances", "transfer", "C", <<"a", 1>>,
               <<EvTransfer("C", "a", 1)>>)>>

Scenarios == {"transfers", "shielded", "notes"}

\* The block the Chain Source serves at height h (api.rpc.chain.getBlock).
ChainAt(sc, h) ==
    IF h = 0 THEN ChainBlock(0, <<>>)
    ELSE ChainBlock(h, CASE sc = "transfers" -> TransferExts(h)
                         [] sc = "shielded" -> ShieldedExts(h)
                         [] sc = "mixedcase" -> MixedExts(h)
                         [] OTHER -> NotesExts(h))

\* ----------------------------------------------------------- Ledger Source
\* The ledger's transaction at height h carries the hash of the chain's
\* extrinsic of that height, in the form the store keeps it.
LedgerTx(h) ==
    [hash |-> NormHash(TxHashOf(h)), id |-> 100 + h, regular |-> TRUE,
     status |-> "SUCCESS", paidFees |-> "paid", estimatedFees |-> "est",
     startIndex |-> h, endIndex |-> h + 1]

\* GetBlockByHeight's block for height h.
LedgerAt(h) ==
    [hash |-> NormHash(BlockHashOf(h)), height |-> h,
     parentHash |-> NormHash(BlockHashOf(h - 1)),
     author |-> "author", ledgerParameters |-> "params",
     transactions |-> IF h = 0 THEN <<>> ELSE <<LedgerTx(h)>>]

\* ------------------------------------------------------------------- store
EmptyDb ==
    [blocks |-> <<>>, extrinsics |-> <<>>, transactions |-> <<>>,
     tx_outputs |-> <<>>, tx_inputs |-> <<>>, accounts |-> <<>>,
     account_tx |-> <<>>, account_balances |-> <<>>, shielded_notes |-> <<>>]

\* INSERT ... ON CONFLICT (key) DO UPDATE, the row given in full.
Upsert(t, k, row) == [x \in (DOMAIN t) \cup {k} |-> IF x = k THEN row ELSE t[x]]

MergeTable(base, ov) ==
    [x \in (DOMAIN base) \cup (DOMAIN ov) |-> IF x \in DOMAIN ov THEN ov[x] ELSE base[x]]

\* What a statement of a transaction with overlay ov sees (READ COMMITTED),
\* and what COMMIT leaves in the store.
MergeDb(base, ov) ==
    [blocks |-> MergeTable(base.blocks, ov.blocks),
     extrinsics |-> MergeTable(base.extrinsics, ov.extrinsics),
     transactions |-> MergeTable(base.transactions, ov.transactions),
     tx_outputs |-> MergeTable(base.tx_outputs, ov.tx_outputs),
     tx_inputs |-> MergeTable(base.tx_inputs, ov.tx_inputs),
     accounts |-> MergeTable(base.accounts, ov.accounts),
     account_tx |-> MergeTable(base.account_tx, ov.account_tx),
     account_balances |-> MergeTable(base.account_balances, ov.account_balances),
     shielded_notes |-> MergeTable(base.shielded_notes, ov.shielded_notes)]


\* --------------------------------------------------- indexBlock, pure parts
\* The strings of section and method names as sequences of pieces, chosen so
\* that one string starts with another exactly when its pieces do.
Pieces(s) ==
    CASE s = "batchAll" -> <<"batch", "All">>
      [] s = "batchX" -> <<"batch", "X">>
      [] s = "forceBatch" -> <<"force", "Batch">>
      [] s = "forceBatchX" -> <<"force", "Batch", "X">>
      [] s = "remarkWithEvent" -> <<"remark", "WithEvent">>
      [] s = "balancesX" -> <<"balances", "X">>
      [] s = "utilityX" -> <<"utility", "X">>
      [] OTHER -> <<s>>

\* `${section}.${method}`
Key(section, method) == Pieces(section) \o <<".">> \o Pieces(method)

\* String.prototype.startsWith
StartsWith(k, prefix) == Len(prefix) <= Len(k) /\ SubSeq(k, 1, Len(prefix)) = prefix

excludedPatterns ==
    {Key("timestamp", "set"), Key("parachainSystem", "setValidationData"),
     Key("system", "remark"), Key("system", "remarkWithEvent")}

txLikePrefixes ==
    {<<"balances", ".">>, <<"assets", ".">>, <<"midnightTx", ".">>, <<"compact", ".">>,
     Key("utility", "batch"), Key("utility", "batchAll"), Key("utility", "forceBatch")}

\* isTransactionLike asking for the signature before the excluded patterns.
isTransactionLikeSignedFirst(section, method, isSigned) ==
    IF isSigned THEN TRUE
    ELSE IF Key(section, method) \in excludedPatterns THEN FALSE
    ELSE \E prefix \in txLikePrefixes : StartsWith(Key(section, method), prefix)

isTransactionLike(section, method, isSigned) ==
    IF Key(section, method) \in excludedPatterns THEN FALSE
    ELSE IF isSigned THEN TRUE
    ELSE \E prefix \in txLikePrefixes : StartsWith(Key(section, method), prefix)

\* Amount taken from the call arguments (balances.transfer(dest, value)).
ArgAmount(ext) ==
    IF /\ ext.section = "balances"
       /\ ext.method \in {"transfer", "transferKeepAlive"}
       /\ Len(ext.args) >= 2
       /\ ext.args[2] > 0
    THEN ext.args[2] ELSE 0

\* One event's contribution to fee / is_shielded / status / totals.
EventFields(acc, ext, ev) ==
    LET fromIsSigner == /\ ext.signer # NoAddr
                        /\ ev.from # NoAddr
                        /\ Lower(ev.from) = Lower(ext.signer)
        a1 == IF ev.kind = "Fee" /\ ev.amount > 0
              THEN [acc EXCEPT !.fee = ev.amount, !.totalInput = @ + ev.amount]
              ELSE acc
        a2 == IF ev.kind = "Transfer" /\ ev.amount > 0
              THEN [a1 EXCEPT !.totalInput = IF fromIsSigner THEN @ + ev.amount ELSE @,
                              !.totalOutput = IF ev.to # NoAddr THEN @ + ev.amount ELSE @]
              ELSE a1
        a3 == IF ev.kind = "Shielded"
              THEN [a2 EXCEPT !.isShielded = TRUE,
                              !.totalInput = @ + ev.amount,
                              !.totalOutput = @ + ev.amount]
              ELSE a2
        a4 == IF ext.section \in {"midnightTx", "shielded"}
              THEN [a3 EXCEPT !.isShielded = TRUE] ELSE a3
    IN IF ev.kind = "Failed" THEN [a4 EXCEPT !.status = "0"] ELSE a4

RECURSIVE FoldEventFields(_, _, _, _)
FoldEventFields(acc, ext, evs, k) ==
    IF k > Len(evs) THEN acc
    ELSE FoldEventFields(EventFields(acc, ext, evs[k]), ext, evs, k + 1)

\* fee, is_shielded, status, total_input, total_output of a transaction-like
\* extrinsic: the call arguments first, then every event on top.
TxFields(ext) ==
    FoldEventFields([fee |-> NullNum, isShielded |-> FALSE, status |-> "1",
                     totalInput |-> ArgAmount(ext), totalOutput |-> ArgAmount(ext)],
                    ext, ext.events, 1)

NumOrNull(n) == IF n > 0 THEN n ELSE NullNum

\* The transactions upsert of indexBlock: ON CONFLICT (hash) DO UPDATE sets
\* the chain-side columns and leaves every other column of the row.
IdxTransactionRow(view, ext, blockId, i, timestamp) ==
    LET f == TxFields(ext)
        k == NormHash(ext.hash)
        old == IF k \in DOMAIN view.transactions THEN view.transactions[k]
               ELSE [block_id |-> 0, index_in_block |-> 0, timestamp |-> 0,
                     is_shielded |-> FALSE, fee |-> NullNum,
                     total_input |-> NullNum, total_output |-> NullNum,
                     status |-> "1", raw |-> "none",
                     transaction_id |-> NullNum, start_index |-> 0, end_index |-> 0,
                     paid_fees |-> NullStr, estimated_fees |-> NullStr]
    IN [old EXCEPT !.block_id = blockId, !.index_in_block = i,
                   !.timestamp = timestamp,
                   !.is_shielded = f.isShielded, !.fee = f.fee,
                   !.total_input = NumOrNull(f.totalInput),
                   !.total_output = NumOrNull(f.totalOutput),
                   !.status = f.status, !.raw = "chain"]

\* ORDER BY t.timestamp DESC, to_out.id DESC: k1 sorts before k2.
OutputBefore(view, k1, k2) ==
    LET t1 == view.transactions[k1[1]]
        t2 == view.transactions[k2[1]]
    IN \/ t1.timestamp > t2.timestamp
       \/ /\ t1.timestamp = t2.timestamp
          /\ \/ t1.index_in_block > t2.index_in_block
             \/ t1.index_in_block = t2.index_in_block /\ k1[2] >= k2[2]

Linked(view, k) == \E i \in DOMAIN view.tx_inputs : view.tx_inputs[i].prev_output_id = k

FirstOutput(view, cands) ==
    IF cands = {} THEN NoOutput
    ELSE CHOOSE k \in cands : \A k2 \in cands : OutputBefore(view, k, k2)

\* The unshielded prev-output SELECT (INNER JOIN transactions, the output
\* not referenced by any tx_inputs row, LIMIT 1).
PrevOutputLookup(view, addr, asset, amount) ==
    FirstOutput(view,
        {k \in DOMAIN view.tx_outputs :
            /\ k[1] \in DOMAIN view.transactions
            /\ view.tx_outputs[k].account_addr = addr
            /\ view.tx_outputs[k].asset_id = asset
            /\ view.tx_outputs[k].value >= amount
            /\ ~view.tx_outputs[k].shielded
            /\ ~Linked(view, k)})

\* The shielded prev-output SELECT, by note commitment.
PrevShieldedLookup(view, commitment, amount) ==
    FirstOutput(view,
        {k \in DOMAIN view.tx_outputs :
            /\ k[1] \in DOMAIN view.transactions
            /\ view.tx_outputs[k].note_commitment = commitment
            /\ view.tx_outputs[k].shielded
            /\ view.tx_outputs[k].value >= amount
            /\ ~Linked(view, k)})

OutputRow(addr, asset, value, shielded, commitment) ==
    [account_addr |-> addr, asset_id |-> asset, value |-> value,
     shielded |-> shielded, note_commitment |-> commitment]

\* accountTxData bookkeeping of the receiving / the sending side.
AtxIn(atx, addr, amount) ==
    IF addr \in DOMAIN atx
    THEN [atx EXCEPT ![addr].value = @ + amount]
    ELSE Upsert(atx, addr, [direction |-> 1, value |-> amount])

\* AtxOut recording the sending side as a receiving one.
AtxOutAsIn(atx, addr, amount) ==
    IF addr \in DOMAIN atx
    THEN [atx EXCEPT ![addr].value = @ + amount]
    ELSE Upsert(atx, addr, [direction |-> 1, value |-> amount])

AtxOut(atx, addr, amount) ==
    IF addr \in DOMAIN atx
    THEN [atx EXCEPT ![addr].direction = IF @ = 1 THEN 3 ELSE 2,
                     ![addr].value = @ + amount]
    ELSE Upsert(atx, addr, [direction |-> 2, value |-> amount])


\* ---------------------------------------- indexBlock, statements of one tx
\* s: the running state of the events loop of one transaction:
\*   ov (the connection's overlay), oi / ii (outputIndex / inputIndex),
\*   accts (accountsInvolved), atx (accountTxData), notes
\*   (shieldedNotesToCreate), aborted (a statement has failed).
\* lookupFails: the prev-output SELECT of this event raises an error, which
\* the code catches; the transaction is then in the aborted state.

\* balances.Transfer: tx_outputs row for `to`, account bookkeeping, and for
\* a transfer sent by the signer the prev-output lookup and tx_inputs row.
ProcTransfer(s, base, ext, ev, lookupFails) ==
    LET txk == NormHash(ext.hash)
        ov1 == [s.ov EXCEPT !.tx_outputs =
                   Upsert(@, <<txk, s.oi>>, OutputRow(ev.to, "MID", ev.amount, FALSE, NoNote))]
        atx1 == AtxIn(s.atx, Lower(ev.to), ev.amount)
        atx2 == IF ev.from # NoAddr THEN AtxOut(atx1, Lower(ev.from), ev.amount) ELSE atx1
        accts2 == s.accts \cup {Lower(ev.to)}
                    \cup (IF ev.from # NoAddr THEN {Lower(ev.from)} ELSE {})
        spends == /\ ext.signer # NoAddr
                  /\ ev.from # NoAddr
                  /\ Lower(ev.from) = Lower(ext.signer)
        prev == PrevOutputLookup(MergeDb(base, ov1), Lower(ev.from), "MID", ev.amount)
        ov2 == [ov1 EXCEPT !.tx_inputs =
                   Upsert(@, <<txk, s.ii>>, [prev_output_id |-> prev])]
        s1 == [s EXCEPT !.ov = ov1, !.oi = @ + 1, !.accts = accts2, !.atx = atx2]
    IN IF s.aborted \/ ev.amount <= 0 \/ ev.to = NoAddr THEN s
       ELSE IF ~spends THEN s1
       ELSE IF lookupFails THEN [s1 EXCEPT !.aborted = TRUE, !.ii = @ + 1]
       ELSE [s1 EXCEPT !.ov = ov2, !.ii = @ + 1]

\* UPDATE shielded_notes SET spent_tx_id, spent_block_id, status = 1
\*   WHERE commitment = c AND status = 0
MarkNoteSpent(view, ov, c, txk, blockId) ==
    IF c \in DOMAIN view.shielded_notes /\ view.shielded_notes[c].status = 0
    THEN [ov EXCEPT !.shielded_notes =
             Upsert(@, c, [view.shielded_notes[c] EXCEPT
                              !.spent_tx_id = txk, !.spent_block_id = blockId,
                              !.status = 1])]
    ELSE ov

\* A midnight / shielded event: shielded tx_outputs row, the note to create,
\* the lookup of a prior output of the same commitment, the tx_inputs row.
ProcShielded(s, base, ext, ev, blockId, lookupFails) ==
    LET txk == NormHash(ext.hash)
        c == ev.commitment
        ov1 == [s.ov EXCEPT !.tx_outputs =
                   Upsert(@, <<txk, s.oi>>, OutputRow(NoAddr, "MID", ev.amount, TRUE, c))]
        notes1 == IF c # NoNote
                  THEN Append(s.notes, [commitment |-> c, assetId |-> "MID",
                                        value |-> ev.amount, outputId |-> <<txk, s.oi>>])
                  ELSE s.notes
        view1 == MergeDb(base, ov1)
        prev == IF c # NoNote THEN PrevShieldedLookup(view1, c, ev.amount) ELSE NoOutput
        ov2 == IF prev # NoOutput THEN MarkNoteSpent(view1, ov1, c, txk, blockId) ELSE ov1
        ov3 == [ov2 EXCEPT !.tx_inputs =
                   Upsert(@, <<txk, s.ii>>, [prev_output_id |-> prev])]
        s1 == [s EXCEPT !.ov = ov1, !.oi = @ + 1, !.notes = notes1]
    IN IF s.aborted \/ ev.amount <= 0 THEN s
       ELSE IF lookupFails /\ c # NoNote THEN [s1 EXCEPT !.aborted = TRUE, !.ii = @ + 1]
       ELSE [s1 EXCEPT !.ov = ov3, !.ii = @ + 1]

ProcEvent(s, base, ext, ev, blockId, lookupFails) ==
    CASE ev.kind = "Transfer" -> ProcTransfer(s, base, ext, ev, lookupFails)
      [] ev.kind = "Shielded" -> ProcShielded(s, base, ext, ev, blockId, lookupFails)
      [] OTHER -> s

\* The events loop of step 6; failAt: the event whose lookup fails (0: none).
RECURSIVE ProcEvents(_, _, _, _, _, _)
ProcEvents(s, base, ext, blockId, k, failAt) ==
    IF k > Len(ext.events) THEN s
    ELSE ProcEvents(ProcEvent(s, base, ext, ext.events[k], blockId, k = failAt),
                    base, ext, blockId, k + 1, failAt)

\* Whether event ev of ext issues a prev-output SELECT.
HasLookup(ext, ev) ==
    \/ /\ ev.kind = "Transfer" /\ ev.amount > 0 /\ ev.to # NoAddr
       /\ ext.signer # NoAddr /\ ev.from # NoAddr
       /\ Lower(ev.from) = Lower(ext.signer)
    \/ ev.kind = "Shielded" /\ ev.amount > 0 /\ ev.commitment # NoNote

\* Steps 5 and 6 of indexBlock for the extrinsic at index i (1-based here):
\* the transactions upsert, then the events loop.
IdxTxStatements(base, ov, ext, blockId, i, timestamp, failAt) ==
    LET txk == NormHash(ext.hash)
        ov1 == [ov EXCEPT !.transactions =
                   Upsert(@, txk, IdxTransactionRow(MergeDb(base, ov), ext, blockId, i - 1, timestamp))]
    IN ProcEvents([ov |-> ov1, oi |-> 0, ii |-> 0, accts |-> {}, atx |-> <<>>,
                   notes |-> <<>>, aborted |-> FALSE],
                  base, ext, blockId, 1, failAt)

\* ------------------------------------------- updateAccountsAndRelatedTables
\* SELECT balance ... WHERE account_id AND asset_id ORDER BY block_id DESC LIMIT 1
LatestBalance(view, a) ==
    LET rows == {k \in DOMAIN view.account_balances : k[1] = a}
    IN IF rows = {} THEN 0
       ELSE view.account_balances[CHOOSE k \in rows : \A k2 \in rows : k[2] >= k2[2]]

\* currentBalance after this transaction's movement of account a.
NewBalance(view, atx, a) ==
    LET cur == LatestBalance(view, a)
        inc == IF a \in DOMAIN atx /\ atx[a].direction \in {1, 3} THEN atx[a].value ELSE 0
        dec == IF a \in DOMAIN atx /\ atx[a].direction \in {2, 3} THEN atx[a].value ELSE 0
    IN cur + inc - dec

AccountRow(view, a, blockId) ==
    IF a \in DOMAIN view.accounts
    THEN [view.accounts[a] EXCEPT
             !.last_seen_block_id = IF @ > blockId THEN @ ELSE blockId]
    ELSE [first_seen_block_id |-> blockId, last_seen_block_id |-> blockId]

\* NoteRow with the conflict update keeping status 1 only for a note that the
\* upserting transaction itself has spent, and writing 0 otherwise.
NoteRowResets(view, note, txk, blockId) ==
    IF note.commitment \in DOMAIN view.shielded_notes
    THEN [view.shielded_notes[note.commitment] EXCEPT
             !.value = note.value, !.created_tx_id = txk,
             !.created_block_id = blockId,
             !.status = IF @ = 1 /\ view.shielded_notes[note.commitment].spent_tx_id = txk
                        THEN 1 ELSE 0]
    ELSE [asset_id |-> note.assetId, value |-> note.value, created_tx_id |-> txk,
          created_block_id |-> blockId, spent_tx_id |-> NullStr,
          spent_block_id |-> NullNum, status |-> 0]

\* shielded_notes upsert: ON CONFLICT (commitment) keeps asset_id, the spent
\* columns and the status (CASE WHEN status = 1 THEN 1 ELSE 0).
NoteRow(view, note, txk, blockId) ==
    IF note.commitment \in DOMAIN view.shielded_notes
    THEN [view.shielded_notes[note.commitment] EXCEPT
             !.value = note.value, !.created_tx_id = txk,
             !.created_block_id = blockId,
             !.status = IF @ = 1 THEN 1 ELSE 0]
    ELSE [asset_id |-> note.assetId, value |-> note.value, created_tx_id |-> txk,
          created_block_id |-> blockId, spent_tx_id |-> NullStr,
          spent_block_id |-> NullNum, status |-> 0]

RECURSIVE UpsertNotes(_, _, _, _, _, _)
UpsertNotes(base, ov, notes, k, txk, blockId) ==
    IF k > Len(notes) THEN ov
    ELSE UpsertNotes(base,
                     [ov EXCEPT !.shielded_notes =
                         Upsert(@, notes[k].commitment,
                                NoteRow(MergeDb(base, ov), notes[k], txk, blockId))],
                     notes, k + 1, txk, blockId)

\* The four loops of updateAccountsAndRelatedTables.  Rows of different
\* accounts do not read each other, so each loop is one table update.
updateAccountsAndRelatedTables(base, ov, txk, blockId, accts, atx, notes) ==
    LET view == MergeDb(base, ov)
        ov1 == [ov EXCEPT
                  !.accounts = MergeTable(@, [a \in accts |-> AccountRow(view, a, blockId)]),
                  !.account_tx = MergeTable(@,
                      [k \in {<<a, txk>> : a \in DOMAIN atx} |->
                          [block_id |-> IF k \in DOMAIN view.account_tx
                                        THEN view.account_tx[k].block_id ELSE blockId,
                           direction |-> atx[k[1]].direction,
                           value |-> atx[k[1]].value]]),
                  !.account_balances = MergeTable(@,
                      [k \in {<<a, blockId>> : a \in accts} |-> NewBalance(view, atx, k[1])])]
    IN UpsertNotes(base, ov1, notes, 1, txk, blockId)


\* ------------------------------------------------------- indexer, the state
VARIABLES
    scenario,      \* what the Chain Source holds
    db,            \* the committed tables
    nextBlockId,   \* blocks_id_seq
    wk,            \* per height: the indexBlock call in progress
    pc,            \* startIndexing: "boot", "loop", "await", "live"
    currentBlock,  \* startIndexing's currentBlock
    batchEnd,      \* startIndexing's batchEnd
    startBlock,    \* startIndexing's startBlock
    cursor,        \* state['last_indexed_block'] as committed (0: no row)
    inflight,      \* setState calls issued and not yet executed by the pool
    run,           \* process starts so far
    fails,         \* failures injected so far
    heads,         \* new-head notifications delivered so far
    failed,        \* history: heights whose indexBlock returned 0 in this run
    lost,          \* history: heights whose indexBlock returned 0 in a past run
    cursorRun,     \* history: the run that last wrote the cursor row (0: none)
    \* --- the importer (midnight-importer.ts)
    ledgerTip,     \* highest height the Ledger Source serves
    ipc,           \* startImporting: "off", "boot", "connect", "loop", "batch", "live", "dead"
    imp,           \* startImporting's locals: startHeight, height, i, processedBlocks
    pb,            \* per caller: the processBatch transaction in progress
    nb,            \* heights whose importNewBlock has read its data and not yet written
    fin,           \* the importFinalizedBlock call in progress
    pendingGraphQLBlocks,
    quota,         \* what the environment may still start: cli, idx, newHead, finHead;
                   \* finNext: the lowest height the next finalized head can have
    m0,            \* history: the store's highest height when startImporting read it
    gap,           \* the detectAndImportMissingBlocks call in progress
    ca,            \* the insertContractActions call in progress and its tables
    finalizedHeight, \* the height of the Chain Source's finalized head
    call           \* the call in progress in the specifications of one function:
                   \* its arguments, its locals and its result

impVars == <<ledgerTip, ipc, imp, pb, nb, fin, pendingGraphQLBlocks, quota, m0, gap, ca, finalizedHeight, call>>

vars == <<scenario, db, nextBlockId, wk, pc, currentBlock, batchEnd, startBlock,
          cursor, inflight, run, fails, heads, failed, lost, cursorRun, impVars>>

\* Head notifications delivered by subscribeNewHeads over a behaviour.
MaxHeads == 1

latestBlock == MaxHeight

IdleW ==
    [ph |-> "idle", i |-> 0, ov |-> EmptyDb, aborted |-> FALSE, locks |-> {},
     blockId |-> 0, accts |-> {}, atx |-> <<>>, notes |-> <<>>, undone |-> FALSE]

\* getLastBlockNumber: SELECT MAX(height) FROM blocks, 0 when there is none.
RECURSIVE MaxOf(_)
MaxOf(S) ==
    IF S = {} THEN 0
    ELSE LET x == CHOOSE y \in S : TRUE
             m == MaxOf(S \ {x})
         IN IF x > m THEN x ELSE m

getLastBlockNumber(d) == MaxOf(DOMAIN d.blocks)

Min(a, b) == IF a < b THEN a ELSE b

\* The next extrinsic after index i that indexBlock treats as a transaction.
NextTxLike(exts, i) ==
    LET js == {j \in (i + 1)..Len(exts) :
                 isTransactionLike(exts[j].section, exts[j].method, exts[j].isSigned)}
    IN IF js = {} THEN 0 ELSE CHOOSE j \in js : \A j2 \in js : j <= j2

\* blocks upsert of indexBlock: ON CONFLICT (height) keeps id and the columns
\* only the ledger import writes.
IdxBlockRow(view, h, blk, id) ==
    LET old == IF h \in DOMAIN view.blocks THEN view.blocks[h]
               ELSE [id |-> id, hash |-> "", parent_hash |-> "", timestamp |-> 0,
                     tx_count |-> 0, is_finalized |-> FALSE, author |-> NullStr,
                     ledger_parameters |-> NullStr]
    IN [old EXCEPT !.hash = NormHash(blk.hash), !.parent_hash = NormHash(blk.parentHash),
                   !.timestamp = h, !.tx_count = Len(blk.exts),
                   !.is_finalized = FALSE]

\* extrinsics upserts of indexBlock: ON CONFLICT (block_id, index_in_block)
\* keeps the hash column, which only the importer writes.
IdxExtrinsicRows(view, blk, id) ==
    [k \in {<<id, j - 1>> : j \in 1..Len(blk.exts)} |->
        [section |-> blk.exts[k[2] + 1].section, method |-> blk.exts[k[2] + 1].method,
         signer |-> blk.exts[k[2] + 1].signer,
         hash |-> IF k \in DOMAIN view.extrinsics THEN view.extrinsics[k].hash
                  ELSE NullStr]]

\* ------------------------------------------------------ importer, the state
\* Calls the environment may make over a behaviour: processBlock from the
\* command line, indexBlock by the Chain-Source indexer, head notifications.
MaxCli == 1
MaxIdx == 1
MaxNewHeads == 1
MaxFinHeads == 1

\* batchSize of startImporting is 10; scaled down like BATCH_SIZE.
batchSize == 2
progressInterval == 10

\* Highest block of the chain in the importer's runs (all of it finalized).
MaxImpHeight == 2

ImpHeights == 0..MaxImpHeight
Callers == {"main", "cli"}

IdlePb == [ph |-> "idle", hs |-> <<>>, k |-> 0, avail |-> 0 - 1, ov |-> EmptyDb]
IdleFin == [ph |-> "idle", h |-> 0, todo |-> <<>>, was |-> "none"]
IdleImp == [startHeight |-> 0, height |-> 0, i |-> 0, processedBlocks |-> 0]
NoCall == [op |-> "none"]
IdleCa == [ph |-> "idle", typed |-> FALSE, contractActions |-> <<>>, runs |-> 0,
           tables |-> [tx_contract_actions |-> <<>>, tx_contract_action_balances |-> <<>>,
                       nextId |-> 1]]
IdleGap == [ph |-> "idle", s0 |-> {}, missingHeights |-> <<>>, i |-> 0, importedCount |-> 0]
NoQuota == [cli |-> 0, idx |-> 0, newHead |-> 0, finHead |-> 0, finNext |-> 0]

ImpOff ==
    /\ ledgerTip = 0
    /\ ipc = "off"
    /\ imp = IdleImp
    /\ pb = [t \in Callers |-> IdlePb]
    /\ nb = {}
    /\ fin = IdleFin
    /\ pendingGraphQLBlocks = <<>>
    /\ quota = NoQuota
    /\ m0 = 0
    /\ gap = IdleGap
    /\ ca = IdleCa
    /\ finalizedHeight = MaxImpHeight
    /\ call = NoCall

Init ==
    /\ scenario \in Scenarios
    /\ db = EmptyDb
    /\ nextBlockId = 1
    /\ wk = [h \in Heights |-> IdleW]
    /\ pc = "boot"
    /\ currentBlock = 0
    /\ batchEnd = 0
    /\ startBlock = 0
    /\ cursor = 0
    /\ inflight = {}
    /\ run = 1
    /\ fails = 0
    /\ heads = 0
    /\ failed = {}
    /\ lost = {}
    /\ cursorRun = 0
    /\ ImpOff


\* ------------------------------------------------- importer, pure parts
\* getFinalizedBlockHeight: the chain of the model is finalized throughout.
getFinalizedBlockHeight == finalizedHeight

\* SELECT MAX(height) FROM blocks; `if (!maxHeight) return 0`.
getMaxBlockHeight(d) == MaxOf(DOMAIN d.blocks)

\* getBlockData's parentHash: the header's parent hash normalised above
\* height 0, sixty-two zeros at height 0.
getBlockDataParentHash(h, blk) == IF h > 0 THEN NormHash(blk.parentHash) ELSE Zeros62

\* insertBlock: the blocks upsert with the Chain Source's data
\* (getBlockData: hashes normalised, isFinalized false), then insertExtrinsics.
insertBlock(base, ov, h, blk, id) ==
    LET view == MergeDb(base, ov)
        old == IF h \in DOMAIN view.blocks THEN view.blocks[h]
               ELSE [id |-> id, hash |-> "", parent_hash |-> "", timestamp |-> 0,
                     tx_count |-> 0, is_finalized |-> FALSE, author |-> NullStr,
                     ledger_parameters |-> NullStr]
        row == [old EXCEPT !.hash = NormHash(blk.hash),
                           !.parent_hash = getBlockDataParentHash(h, blk),
                           !.timestamp = h, !.tx_count = Len(blk.exts),
                           !.is_finalized = FALSE]
        exts == [k \in {<<row.id, j - 1>> : j \in 1..Len(blk.exts)} |->
                    [section |-> blk.exts[k[2] + 1].section,
                     method |-> blk.exts[k[2] + 1].method,
                     signer |-> blk.exts[k[2] + 1].signer,
                     hash |-> NormHash(blk.exts[k[2] + 1].hash)]]
    IN [ov EXCEPT !.blocks = Upsert(@, h, row),
                  !.extrinsics = MergeTable(@, exts)]

\* insertTransaction's upsert: ON CONFLICT (hash) leaves fee, total_input and
\* total_output and sets every other column, is_shielded always to false.
insertTransaction(base, ov, blockId, tx, index, timestamp) ==
    LET view == MergeDb(base, ov)
        old == IF tx.hash \in DOMAIN view.transactions THEN view.transactions[tx.hash]
               ELSE [block_id |-> 0, index_in_block |-> 0, timestamp |-> 0,
                     is_shielded |-> FALSE, fee |-> 0, total_input |-> 0,
                     total_output |-> 0, status |-> NullStr, raw |-> "none",
                     transaction_id |-> NullNum, start_index |-> 0, end_index |-> 0,
                     paid_fees |-> NullStr, estimated_fees |-> NullStr]
        row == [old EXCEPT !.block_id = blockId, !.index_in_block = index,
                           !.timestamp = timestamp, !.is_shielded = FALSE,
                           !.transaction_id = tx.id,
                           !.start_index = IF tx.regular THEN tx.startIndex ELSE NullNum,
                           !.end_index = IF tx.regular THEN tx.endIndex ELSE NullNum,
                           !.status = IF tx.regular THEN tx.status ELSE NullStr,
                           !.paid_fees = IF tx.regular THEN tx.paidFees ELSE NullStr,
                           !.estimated_fees = IF tx.regular THEN tx.estimatedFees ELSE NullStr,
                           !.raw = "ledger"]
    IN [ov EXCEPT !.transactions = Upsert(@, tx.hash, row)]

RECURSIVE insertTransactions(_, _, _, _, _, _)
insertTransactions(base, ov, blockId, txs, i, timestamp) ==
    IF i > Len(txs) THEN ov
    ELSE insertTransactions(base,
                            insertTransaction(base, ov, blockId, txs[i], i - 1, timestamp),
                            blockId, txs, i + 1, timestamp)

\* A variant that stores the genesis placeholder as every block's parent.
insertGraphQLBlockNoParent(base, ov, lb, id) ==
    LET view == MergeDb(base, ov)
        h == lb.height
        old == IF h \in DOMAIN view.blocks THEN view.blocks[h]
               ELSE [id |-> id, hash |-> "", parent_hash |-> "", timestamp |-> 0,
                     tx_count |-> 0, is_finalized |-> FALSE, author |-> NullStr,
                     ledger_parameters |-> NullStr]
        row == [old EXCEPT !.hash = lb.hash, !.parent_hash = Zeros64,
                           !.timestamp = h, !.tx_count = Len(lb.transactions),
                           !.is_finalized = TRUE, !.author = lb.author,
                           !.ledger_parameters = lb.ledgerParameters]
    IN insertTransactions(base, [ov EXCEPT !.blocks = Upsert(@, h, row)],
                          row.id, lb.transactions, 1, h)

\* insertGraphQLBlock: the blocks upsert with the Ledger Source's data
\* (is_finalized true), then insertTransaction for each transaction.
insertGraphQLBlock(base, ov, lb, id) ==
    LET view == MergeDb(base, ov)
        h == lb.height
        old == IF h \in DOMAIN view.blocks THEN view.blocks[h]
               ELSE [id |-> id, hash |-> "", parent_hash |-> "", timestamp |-> 0,
                     tx_count |-> 0, is_finalized |-> FALSE, author |-> NullStr,
                     ledger_parameters |-> NullStr]
        row == [old EXCEPT !.hash = lb.hash, !.parent_hash = lb.parentHash,
                           !.timestamp = h, !.tx_count = Len(lb.transactions),
                           !.is_finalized = TRUE, !.author = lb.author,
                           !.ledger_parameters = lb.ledgerParameters]
    IN insertTransactions(base, [ov EXCEPT !.blocks = Upsert(@, h, row)],
                          row.id, lb.transactions, 1, h)

\* UPDATE blocks SET is_finalized = TRUE WHERE hash = $1 AND is_finalized = FALSE
updateFinalizedBlock(base, ov, hash) ==
    LET view == MergeDb(base, ov)
        hit == {h \in DOMAIN view.blocks :
                   view.blocks[h].hash = hash /\ ~view.blocks[h].is_finalized}
    IN [ov EXCEPT !.blocks =
           MergeTable(@, [h \in hit |-> [view.blocks[h] EXCEPT !.is_finalized = TRUE]])]

\* The id the blocks upsert of height h returns: the row's id, or a new one.
BlockIdFor(view, h) == IF h \in DOMAIN view.blocks THEN view.blocks[h].id ELSE nextBlockId

\* Row locks: the blocks and transactions rows written by the open
\* transactions other than the caller's (processBatch caller t, indexBlock of
\* height h; "none" and 0 name no one); a statement on such a row waits.
HeldBlocks(t, h) ==
    UNION ({DOMAIN pb[t2].ov.blocks : t2 \in Callers \ {t}}
           \cup {DOMAIN wk[h2].ov.blocks : h2 \in Heights \ {h}})

HeldTxs(t, h) ==
    UNION ({DOMAIN pb[t2].ov.transactions : t2 \in Callers \ {t}}
           \cup {DOMAIN wk[h2].ov.transactions : h2 \in Heights \ {h}})

\* The shielded_notes rows written by the open transactions of indexBlock
\* other than that of height h (only indexBlock writes the table).
HeldNotes(h) == UNION {DOMAIN wk[h2].ov.shielded_notes : h2 \in Heights \ {h}}

\* ov2 writes no row that another open transaction holds.
CanWrite(t, h, ov2) ==
    /\ DOMAIN ov2.blocks \cap HeldBlocks(t, h) = {}
    /\ DOMAIN ov2.transactions \cap HeldTxs(t, h) = {}
    /\ DOMAIN ov2.shielded_notes \cap HeldNotes(h) = {}

\* ------------------------------------------------------ indexBlock, actions
Done(w) == w.ph \in {"idle", "ok", "err"}

\* catch (error) { ROLLBACK; throw } ... catch { return 0 }
RolledBack(w) ==
    [IdleW EXCEPT !.ph = "err", !.undone = (w.ov # EmptyDb), !.aborted = w.aborted]

Returned0(h) ==
    /\ failed' = failed \cup {h}
    /\ UNCHANGED <<scenario, db, nextBlockId, pc, currentBlock, batchEnd, startBlock,
                   cursor, inflight, run, heads, lost, cursorRun, impVars>>

\* The RPC reads before BEGIN throw: indexBlock returns 0 without a transaction.
IdxFetchFail(h) ==
    /\ wk[h].ph = "fetch"
    /\ fails < MaxFail
    /\ fails' = fails + 1
    /\ wk' = [wk EXCEPT ![h] = [IdleW EXCEPT !.ph = "err"]]
    /\ Returned0(h)

\* Steps 1 to 4: BEGIN, the blocks upsert, SELECT id, the extrinsics upserts.
IdxBegin(h) ==
    /\ wk[h].ph = "fetch"
    /\ LET blk == ChainAt(scenario, h)
           isNew == h \notin DOMAIN db.blocks
           id == IF isNew THEN nextBlockId ELSE db.blocks[h].id
           ov1 == [EmptyDb EXCEPT !.blocks = Upsert(@, h, IdxBlockRow(db, h, blk, id)),
                                  !.extrinsics = IdxExtrinsicRows(db, blk, id)]
           j == NextTxLike(blk.exts, 0)
       IN /\ CanWrite("none", h, ov1)
          /\ nextBlockId' = IF isNew THEN nextBlockId + 1 ELSE nextBlockId
          /\ wk' = [wk EXCEPT ![h] = [IdleW EXCEPT !.ph = IF j = 0 THEN "commit" ELSE "tx",
                                                   !.i = j, !.ov = ov1, !.blockId = id]]
    /\ UNCHANGED <<scenario, db, pc, currentBlock, batchEnd, startBlock, cursor,
                   inflight, run, fails, heads, failed, lost, cursorRun, impVars>>

\* Steps 5 and 6 for the extrinsic at wk[h].i; failAt > 0: the lookup of that
\* event raises a store error, which indexBlock catches and logs.
IdxTxRun(h, failAt) ==
    LET w == wk[h]
        ext == ChainAt(scenario, h).exts[w.i]
        r == IdxTxStatements(db, w.ov, ext, w.blockId, w.i, h, failAt)
    IN /\ CanWrite("none", h, r.ov)
       /\ wk' = [wk EXCEPT ![h] = [w EXCEPT !.ph = "acct", !.ov = r.ov, !.aborted = r.aborted,
                                            !.accts = r.accts, !.atx = r.atx,
                                            !.notes = r.notes]]

IdxTx(h) ==
    /\ wk[h].ph = "tx"
    /\ IdxTxRun(h, 0)
    /\ UNCHANGED <<scenario, db, nextBlockId, pc, currentBlock, batchEnd, startBlock,
                   cursor, inflight, run, fails, heads, failed, lost, cursorRun, impVars>>

IdxTxLookupFail(h) ==
    /\ wk[h].ph = "tx"
    /\ fails < MaxFail
    /\ LET ext == ChainAt(scenario, h).exts[wk[h].i]
       IN \E k \in 1..Len(ext.events) :
             /\ HasLookup(ext, ext.events[k])
             /\ IdxTxRun(h, k)
    /\ fails' = fails + 1
    /\ UNCHANGED <<scenario, db, nextBlockId, pc, currentBlock, batchEnd, startBlock,
                   cursor, inflight, run, heads, failed, lost, cursorRun, impVars>>

\* Step 7: updateAccountsAndRelatedTables.  The accounts upsert takes the row
\* locks of the accounts involved, held until the transaction ends.
IdxAccounts(h) ==
    LET w == wk[h]
        ext == ChainAt(scenario, h).exts[w.i]
        j == NextTxLike(ChainAt(scenario, h).exts, w.i)
        ov2 == updateAccountsAndRelatedTables(db, w.ov, NormHash(ext.hash), w.blockId,
                                              w.accts, w.atx, w.notes)
    IN /\ w.ph = "acct"
       /\ ~w.aborted
       /\ \A h2 \in Heights \ {h} : wk[h2].locks \cap w.accts = {}
       /\ CanWrite("none", h, ov2)
       /\ wk' = [wk EXCEPT ![h] =
                   [w EXCEPT !.ph = IF j = 0 THEN "commit" ELSE "tx", !.i = j,
                             !.ov = ov2,
                             !.locks = @ \cup w.accts,
                             !.accts = {}, !.atx = <<>>, !.notes = <<>>]]
       /\ UNCHANGED <<scenario, db, nextBlockId, pc, currentBlock, batchEnd, startBlock,
                      cursor, inflight, run, fails, heads, failed, lost, cursorRun, impVars>>

\* IdxAbortedThrow with the caught lookup error leaving the transaction
\* usable: updateAccountsAndRelatedTables runs and the block goes on to COMMIT.
IdxAbortedGoesOn(h) ==
    LET w == wk[h]
        ext == ChainAt(scenario, h).exts[w.i]
        j == NextTxLike(ChainAt(scenario, h).exts, w.i)
    IN /\ w.ph = "acct"
       /\ w.aborted
       /\ wk' = [wk EXCEPT ![h] =
                   [w EXCEPT !.ph = IF j = 0 THEN "commit" ELSE "tx", !.i = j,
                             !.aborted = FALSE,
                             !.ov = updateAccountsAndRelatedTables(
                                        db, w.ov, NormHash(ext.hash), w.blockId,
                                        w.accts, w.atx, w.notes),
                             !.accts = {}, !.atx = <<>>, !.notes = <<>>]]
       /\ UNCHANGED <<scenario, db, nextBlockId, pc, currentBlock, batchEnd, startBlock,
                      cursor, inflight, run, fails, heads, failed, lost, cursorRun,
                      impVars>>

\* After a caught lookup error the transaction is aborted: the tx_inputs
\* insert fails inside the same try block, and the first statement of
\* updateAccountsAndRelatedTables fails outside it, which reaches ROLLBACK.
\* (An event with a lookup always leaves an account or a note to write.)
IdxAbortedThrow(h) ==
    /\ wk[h].ph = "acct"
    /\ wk[h].aborted
    /\ wk' = [wk EXCEPT ![h] = RolledBack(wk[h])]
    /\ UNCHANGED fails
    /\ Returned0(h)

\* A store error in a statement that no inner try block catches.
IdxFail(h) ==
    /\ wk[h].ph \in {"tx", "acct", "commit"}
    /\ ~wk[h].aborted
    /\ fails < MaxFail
    /\ fails' = fails + 1
    /\ wk' = [wk EXCEPT ![h] = RolledBack(wk[h])]
    /\ Returned0(h)

\* COMMIT; in an aborted transaction it ends the transaction as ROLLBACK does
\* and reports no error.
IdxCommit(h) ==
    /\ wk[h].ph = "commit"
    /\ db' = IF wk[h].aborted THEN db ELSE MergeDb(db, wk[h].ov)
    /\ wk' = [wk EXCEPT ![h] = [IdleW EXCEPT !.ph = "ok"]]
    /\ UNCHANGED <<scenario, nextBlockId, pc, currentBlock, batchEnd, startBlock, cursor,
                   inflight, run, fails, heads, failed, lost, cursorRun, impVars>>


\* ---------------------------------------------------- startIndexing, actions
\* getLastBlockNumber, startBlock, currentBlock = startBlock.
StartIndexing ==
    /\ pc = "boot"
    /\ LET last == getLastBlockNumber(db)
       IN startBlock' = IF last > 0 THEN last + 1 ELSE 1
    /\ currentBlock' = startBlock'
    /\ pc' = "loop"
    /\ UNCHANGED <<scenario, db, nextBlockId, wk, batchEnd, cursor, inflight, run,
                   fails, heads, failed, lost, cursorRun, impVars>>

\* let isIndexing: set by startIndexing, cleared by stopIndexing.
isIndexing == call.op # "stopIndexing"

\* One turn of the while loop up to Promise.all: an indexBlock per height.
StartBatch ==
    /\ pc = "loop"
    /\ currentBlock <= latestBlock
    /\ isIndexing
    /\ batchEnd' = Min(currentBlock + BATCH_SIZE - 1, latestBlock)
    /\ wk' = [h \in Heights |->
                IF h \in currentBlock..batchEnd' THEN [IdleW EXCEPT !.ph = "fetch"]
                ELSE wk[h]]
    /\ pc' = "await"
    /\ UNCHANGED <<scenario, db, nextBlockId, currentBlock, startBlock, cursor, inflight,
                   run, fails, heads, failed, lost, cursorRun, impVars>>

\* Promise.all resolved (indexBlock never rejects): setState is called and
\* not awaited, currentBlock = batchEnd + 1.
BatchDone ==
    /\ pc = "await"
    /\ \A h \in currentBlock..batchEnd : wk[h].ph \in {"ok", "err"}
    /\ inflight' = inflight \cup {batchEnd}
    /\ currentBlock' = batchEnd + 1
    /\ wk' = [h \in Heights |-> IF h \in currentBlock..batchEnd THEN IdleW ELSE wk[h]]
    /\ pc' = "loop"
    /\ UNCHANGED <<scenario, db, nextBlockId, batchEnd, startBlock, cursor, run, fails,
                   heads, failed, lost, cursorRun, impVars>>

\* The pool executes one of the pending setState upserts.
SetStateApply ==
    /\ \E v \in inflight :
          /\ cursor' = v
          /\ inflight' = inflight \ {v}
    /\ cursorRun' = run
    /\ UNCHANGED <<scenario, db, nextBlockId, wk, pc, currentBlock, batchEnd, startBlock,
                   run, fails, heads, failed, lost, impVars>>

\* The loop ends; subscribeNewHeads.
Subscribe ==
    /\ pc = "loop"
    /\ currentBlock > latestBlock \/ ~isIndexing
    /\ pc' = "live"
    /\ UNCHANGED <<scenario, db, nextBlockId, wk, currentBlock, batchEnd, startBlock,
                   cursor, inflight, run, fails, heads, failed, lost, cursorRun, impVars>>

\* The subscription announces the chain's head (the first notification is
\* the current head): the callback runs indexBlock on it.
NewHead ==
    /\ pc = "live"
    /\ heads < MaxHeads
    /\ Done(wk[latestBlock])
    /\ heads' = heads + 1
    /\ wk' = [wk EXCEPT ![latestBlock] = [IdleW EXCEPT !.ph = "fetch"]]
    /\ UNCHANGED <<scenario, db, nextBlockId, pc, currentBlock, batchEnd, startBlock,
                   cursor, inflight, run, fails, failed, lost, cursorRun, impVars>>

\* The process ends (its connections close, open transactions are rolled
\* back, pending setState calls are dropped) and startIndexing runs again.
Restart ==
    /\ run < MaxRuns
    /\ pc # "boot"
    /\ run' = run + 1
    /\ pc' = "boot"
    /\ wk' = [h \in Heights |-> IdleW]
    /\ inflight' = {}
    /\ lost' = lost \cup failed
    /\ failed' = {}
    /\ currentBlock' = 0
    /\ batchEnd' = 0
    /\ startBlock' = 0
    /\ UNCHANGED <<scenario, db, nextBlockId, cursor, fails, heads, cursorRun, impVars>>

Next ==
    \/ StartIndexing
    \/ StartBatch
    \/ BatchDone
    \/ SetStateApply
    \/ Subscribe
    \/ NewHead
    \/ Restart
    \/ \E h \in Heights :
          \/ IdxFetchFail(h)
          \/ IdxBegin(h)
          \/ IdxTx(h)
          \/ IdxTxLookupFail(h)
          \/ IdxAccounts(h)
          \/ IdxAbortedThrow(h)
          \/ IdxFail(h)
          \/ IdxCommit(h)

Spec == Init /\ [][Next]_vars

\* stopIndexing() is called while startIndexing is catching up; the call
\* record keeps, as history, where the loop was.
StopIndexing ==
    /\ pc \in {"loop", "await"}
    /\ isIndexing
    /\ call' = [op |-> "stopIndexing", currentBlock |-> currentBlock, pc |-> pc]
    /\ UNCHANGED <<scenario, db, nextBlockId, wk, pc, currentBlock, batchEnd, startBlock,
                   cursor, inflight, run, fails, heads, failed, lost, cursorRun, ledgerTip,
                   ipc, imp, pb, nb, fin, pendingGraphQLBlocks, quota, m0, gap, ca,
                   finalizedHeight>>

\* One run of startIndexing, during which stopIndexing may be called.
NextStop ==
    \/ StopIndexing
    \/ StartIndexing
    \/ StartBatch
    \/ BatchDone
    \/ SetStateApply
    \/ Subscribe
    \/ NewHead
    \/ \E h \in Heights :
          \/ IdxFetchFail(h)
          \/ IdxBegin(h)
          \/ IdxTx(h)
          \/ IdxTxLookupFail(h)
          \/ IdxAccounts(h)
          \/ IdxAbortedThrow(h)
          \/ IdxFail(h)
          \/ IdxCommit(h)

SpecStop == Init /\ [][NextStop]_vars

\* The indexer on the chain of MixedExts.
InitMixed ==
    /\ scenario = "mixedcase"
    /\ db = EmptyDb
    /\ nextBlockId = 1
    /\ wk = [h \in Heights |-> IdleW]
    /\ pc = "boot"
    /\ currentBlock = 0
    /\ batchEnd = 0
    /\ startBlock = 0
    /\ cursor = 0
    /\ inflight = {}
    /\ run = 1
    /\ fails = 0
    /\ heads = 0
    /\ failed = {}
    /\ lost = {}
    /\ cursorRun = 0
    /\ ImpOff

SpecMixed == InitMixed /\ [][Next]_vars



\* ------------------------------------------------------- importer, actions
idxVars == <<wk, pc, currentBlock, batchEnd, startBlock, cursor, inflight, run, heads,
             failed, lost, cursorRun>>

\* startImporting up to connectToChain: getMaxBlockHeight, startHeight.
ImpBoot ==
    /\ ipc = "boot"
    /\ LET maxHeight == getMaxBlockHeight(db)
       IN /\ imp' = [imp EXCEPT !.startHeight = IF 0 < maxHeight THEN maxHeight + 1 ELSE 0]
          /\ m0' = maxHeight
    /\ ipc' = "connect"
    /\ UNCHANGED <<scenario, db, nextBlockId, fails, idxVars, ledgerTip, pb, nb, fin,
                   pendingGraphQLBlocks, quota, gap, ca, finalizedHeight, call>>

\* height = min(getFinalizedBlockHeight(), getMaxBlockHeight(client)).
ImpConnect ==
    /\ ipc = "connect"
    /\ imp' = [imp EXCEPT !.height = Min(getFinalizedBlockHeight, getMaxBlockHeight(db)),
                          !.i = imp.startHeight]
    /\ ipc' = "loop"
    /\ UNCHANGED <<scenario, db, nextBlockId, fails, idxVars, ledgerTip, pb, nb, fin,
                   pendingGraphQLBlocks, quota, m0, gap, ca, finalizedHeight, call>>

\* processBatch: BEGIN and the fetch of both sources for all heights.
PbStarted(hs) == [IdlePb EXCEPT !.ph = "run", !.hs = hs, !.avail = ledgerTip]

\* ImpLoopBatch with the heights of the batch pushed from the highest down.
ImpLoopBatchDownwards ==
    /\ ipc = "loop"
    /\ imp.i < imp.height
    /\ LET last == Min(imp.i + batchSize, imp.height) - 1
       IN pb' = [pb EXCEPT !["main"] =
                    PbStarted([j \in 1..(last - imp.i + 1) |-> last - j + 1])]
    /\ ipc' = "batch"
    /\ UNCHANGED <<scenario, db, nextBlockId, fails, idxVars, ledgerTip, imp, nb, fin,
                   pendingGraphQLBlocks, quota, m0, gap, ca, finalizedHeight, call>>

\* One turn of the for loop: the batch i .. min(i + batchSize, height) - 1.
ImpLoopBatch ==
    /\ ipc = "loop"
    /\ imp.i < imp.height
    /\ LET last == Min(imp.i + batchSize, imp.height) - 1
       IN pb' = [pb EXCEPT !["main"] =
                    PbStarted([j \in 1..(last - imp.i + 1) |-> imp.i + j - 1])]
    /\ ipc' = "batch"
    /\ UNCHANGED <<scenario, db, nextBlockId, fails, idxVars, ledgerTip, imp, nb, fin,
                   pendingGraphQLBlocks, quota, m0, gap, ca, finalizedHeight, call>>

\* processBatch returned: processedBlocks, the re-read of height, i += batchSize.
ImpBatchReturned ==
    /\ ipc = "batch"
    /\ pb["main"].ph = "done"
    /\ LET processed == imp.processedBlocks + Len(pb["main"].hs)
           reread == \/ processed % progressInterval = 0
                     \/ processed >= imp.height - imp.startHeight
       IN imp' = [imp EXCEPT !.processedBlocks = processed,
                             !.height = IF reread
                                        THEN Min(getFinalizedBlockHeight, getMaxBlockHeight(db))
                                        ELSE @,
                             !.i = @ + batchSize]
    /\ pb' = [pb EXCEPT !["main"] = IdlePb]
    /\ ipc' = "loop"
    /\ UNCHANGED <<scenario, db, nextBlockId, fails, idxVars, ledgerTip, nb, fin,
                   pendingGraphQLBlocks, quota, m0, gap, ca, finalizedHeight, call>>

\* processBatch threw: startImporting rejects and the process ends.
ImpBatchThrew ==
    /\ ipc = "batch"
    /\ pb["main"].ph = "failed"
    /\ ipc' = "dead"
    /\ UNCHANGED <<scenario, db, nextBlockId, fails, idxVars, ledgerTip, imp, pb, nb, fin,
                   pendingGraphQLBlocks, quota, m0, gap, ca, finalizedHeight, call>>

\* The loop is over: startMidnightIndex subscribes to the heads.
ImpLoopEnd ==
    /\ ipc = "loop"
    /\ imp.i >= imp.height
    /\ ipc' = "live"
    /\ UNCHANGED <<scenario, db, nextBlockId, fails, idxVars, ledgerTip, imp, pb, nb, fin,
                   pendingGraphQLBlocks, quota, m0, gap, ca, finalizedHeight, call>>

\* `npm run dev <height>`: processBlock(h), i.e. processBatch([h]).
CliProcessBlock(h) ==
    /\ quota.cli > 0
    /\ pb["cli"].ph = "idle"
    /\ quota' = [quota EXCEPT !.cli = @ - 1]
    /\ pb' = [pb EXCEPT !["cli"] = PbStarted(<<h>>)]
    /\ UNCHANGED <<scenario, db, nextBlockId, fails, idxVars, ledgerTip, ipc, imp, nb, fin,
                   pendingGraphQLBlocks, m0, gap, ca, finalizedHeight, call>>

\* PbApply with a COMMIT after each height.
PbApplyCommitsEach(t) ==
    LET b == pb[t]
        h == b.hs[b.k + 1]
        id == BlockIdFor(db, h)
        ov1 == insertBlock(db, EmptyDb, h, ChainAt(scenario, h), id)
        ov2 == insertGraphQLBlock(db, ov1, LedgerAt(h), id)
    IN /\ b.ph = "run"
       /\ b.k < Len(b.hs)
       /\ h <= b.avail
       /\ CanWrite(t, 0, ov2)
       /\ nextBlockId' = IF h \in DOMAIN db.blocks THEN nextBlockId ELSE nextBlockId + 1
       /\ db' = MergeDb(db, ov2)
       /\ pb' = [pb EXCEPT ![t] = [b EXCEPT !.k = @ + 1]]
       /\ UNCHANGED <<scenario, fails, idxVars, ledgerTip, ipc, imp, nb, fin,
                      pendingGraphQLBlocks, quota, m0, gap, ca, finalizedHeight, call>>

\* processBatch, one turn of its for loop: insertBlock and insertGraphQLBlock
\* for the next height, on the batch's one connection.
PbApply(t) ==
    LET b == pb[t]
        h == b.hs[b.k + 1]
        view == MergeDb(db, b.ov)
        id == BlockIdFor(view, h)
        ov1 == insertBlock(db, b.ov, h, ChainAt(scenario, h), id)
        ov2 == insertGraphQLBlock(db, ov1, LedgerAt(h), id)
    IN /\ b.ph = "run"
       /\ b.k < Len(b.hs)
       /\ h <= b.avail
       /\ CanWrite(t, 0, ov2)
       /\ nextBlockId' = IF h \in DOMAIN view.blocks THEN nextBlockId ELSE nextBlockId + 1
       /\ pb' = [pb EXCEPT ![t] = [b EXCEPT !.k = @ + 1, !.ov = ov2]]
       /\ UNCHANGED <<scenario, db, fails, idxVars, ledgerTip, ipc, imp, nb, fin,
                      pendingGraphQLBlocks, quota, m0, gap, ca, finalizedHeight, call>>

\* catch (error) { ROLLBACK; throw error }
PbRolledBack(b) == [b EXCEPT !.ph = "failed", !.ov = EmptyDb]

\* The Ledger Source returned no block for the next height: insertBlock has
\* run, insertGraphQLBlock throws "Block is null".
PbNullBlock(t) ==
    LET b == pb[t]
    IN /\ b.ph = "run"
       /\ b.k < Len(b.hs)
       /\ b.hs[b.k + 1] > b.avail
       /\ pb' = [pb EXCEPT ![t] = PbRolledBack(b)]
       /\ UNCHANGED <<scenario, db, nextBlockId, fails, idxVars, ledgerTip, ipc, imp, nb,
                      fin, pendingGraphQLBlocks, quota, m0, gap, ca, finalizedHeight, call>>

\* A fetch or a statement of the batch fails.
PbFail(t) ==
    /\ pb[t].ph = "run"
    /\ fails < MaxFail
    /\ fails' = fails + 1
    /\ pb' = [pb EXCEPT ![t] = PbRolledBack(pb[t])]
    /\ UNCHANGED <<scenario, db, nextBlockId, idxVars, ledgerTip, ipc, imp, nb, fin,
                   pendingGraphQLBlocks, quota, m0, gap, ca, finalizedHeight, call>>

\* COMMIT after the last height.
PbCommit(t) ==
    /\ pb[t].ph = "run"
    /\ pb[t].k = Len(pb[t].hs)
    /\ db' = MergeDb(db, pb[t].ov)
    /\ pb' = [pb EXCEPT ![t] = [@ EXCEPT !.ph = "done", !.ov = EmptyDb]]
    /\ UNCHANGED <<scenario, nextBlockId, fails, idxVars, ledgerTip, ipc, imp, nb, fin,
                   pendingGraphQLBlocks, quota, m0, gap, ca, finalizedHeight, call>>

\* subscribeNewHeads announces height h: importNewBlock reads getBlockData.
NewHeadNotify(h) ==
    /\ ipc = "live"
    /\ quota.newHead > 0
    /\ h \notin nb
    /\ quota' = [quota EXCEPT !.newHead = @ - 1]
    /\ nb' = nb \cup {h}
    /\ UNCHANGED <<scenario, db, nextBlockId, fails, idxVars, ledgerTip, ipc, imp, pb, fin,
                   pendingGraphQLBlocks, m0, gap, ca, finalizedHeight, call>>

\* importNewBlock's transaction: BEGIN, insertBlock, COMMIT.
NewBlockWrite(h) ==
    LET ov1 == insertBlock(db, EmptyDb, h, ChainAt(scenario, h), BlockIdFor(db, h))
    IN /\ h \in nb
       /\ CanWrite("none", 0, ov1)
       /\ db' = MergeDb(db, ov1)
       /\ nextBlockId' = IF h \in DOMAIN db.blocks THEN nextBlockId ELSE nextBlockId + 1
       /\ nb' = nb \ {h}
       /\ UNCHANGED <<scenario, fails, idxVars, ledgerTip, ipc, imp, pb, fin,
                      pendingGraphQLBlocks, quota, m0, gap, ca, finalizedHeight, call>>

NewBlockFail(h) ==
    /\ h \in nb
    /\ fails < MaxFail
    /\ fails' = fails + 1
    /\ nb' = nb \ {h}
    /\ UNCHANGED <<scenario, db, nextBlockId, idxVars, ledgerTip, ipc, imp, pb, fin,
                   pendingGraphQLBlocks, quota, m0, gap, ca, finalizedHeight, call>>

\* subscribeFinalizedHeads announces height h, above every height it has
\* announced before: importFinalizedBlock starts.
FinNotify(h) ==
    /\ ipc = "live"
    /\ quota.finHead > 0
    /\ h >= quota.finNext
    /\ fin.ph = "idle"
    /\ quota' = [quota EXCEPT !.finHead = @ - 1, !.finNext = h + 1]
    /\ fin' = [IdleFin EXCEPT !.ph = "update", !.h = h]
    /\ UNCHANGED <<scenario, db, nextBlockId, fails, idxVars, ledgerTip, ipc, imp, pb, nb,
                   pendingGraphQLBlocks, m0, gap, ca, finalizedHeight, call>>

\* History kept in fin.was: what the store held for the handler's height
\* before the handler wrote.
FinalityOf(d, h) ==
    IF h \notin DOMAIN d.blocks THEN "absent"
    ELSE IF d.blocks[h].is_finalized THEN "true" ELSE "false"

\* The first transaction of importFinalizedBlock (updateFinalizedBlock), then
\* blocksToProcess = [blockHeight, ...pendingGraphQLBlocks] and the queue cleared.
FinUpdate ==
    LET ov1 == updateFinalizedBlock(db, EmptyDb, NormHash(ChainAt(scenario, fin.h).hash))
    IN /\ fin.ph = "update"
       /\ CanWrite("none", 0, ov1)
       /\ db' = MergeDb(db, ov1)
       /\ fin' = [fin EXCEPT !.ph = "ledger", !.todo = <<fin.h>> \o pendingGraphQLBlocks,
                             !.was = FinalityOf(db, fin.h)]
       /\ pendingGraphQLBlocks' = <<>>
       /\ UNCHANGED <<scenario, nextBlockId, fails, idxVars, ledgerTip, ipc, imp, pb, nb,
                      quota, m0, gap, ca, finalizedHeight, call>>

\* updateFinalizedBlock fails: ROLLBACK, and importFinalizedBlock rejects.
FinUpdateFail ==
    /\ fin.ph = "update"
    /\ fails < MaxFail
    /\ fails' = fails + 1
    /\ fin' = IdleFin
    /\ UNCHANGED <<scenario, db, nextBlockId, idxVars, ledgerTip, ipc, imp, pb, nb,
                   pendingGraphQLBlocks, quota, m0, gap, ca, finalizedHeight, call>>

FinAfter(todo) == IF todo = <<>> THEN IdleFin ELSE [fin EXCEPT !.todo = todo]

\* A push without the includes test.
EnqueueAlways(q, h) == Append(q, h)

\* if (!pendingGraphQLBlocks.includes(height)) pendingGraphQLBlocks.push(height)
Enqueue(q, h) == IF \E j \in 1..Len(q) : q[j] = h THEN q ELSE Append(q, h)

\* The loop over blocksToProcess, the Ledger Source has the block: a
\* transaction of its own with insertGraphQLBlock.
FinLedgerImport ==
    LET h == Head(fin.todo)
        ov1 == insertGraphQLBlock(db, EmptyDb, LedgerAt(h), BlockIdFor(db, h))
    IN /\ fin.ph = "ledger"
       /\ h <= ledgerTip
       /\ CanWrite("none", 0, ov1)
       /\ db' = MergeDb(db, ov1)
       /\ nextBlockId' = IF h \in DOMAIN db.blocks THEN nextBlockId ELSE nextBlockId + 1
       /\ fin' = FinAfter(Tail(fin.todo))
       /\ UNCHANGED <<scenario, fails, idxVars, ledgerTip, ipc, imp, pb, nb,
                      pendingGraphQLBlocks, quota, m0, gap, ca, finalizedHeight, call>>

\* FinLedgerQueue without the push: the height is dropped.
FinLedgerSkips ==
    /\ fin.ph = "ledger"
    /\ Head(fin.todo) > ledgerTip
    /\ fin' = FinAfter(Tail(fin.todo))
    /\ UNCHANGED <<scenario, db, nextBlockId, fails, idxVars, ledgerTip, ipc, imp, pb, nb,
                   pendingGraphQLBlocks, quota, m0, gap, ca, finalizedHeight, call>>

\* ... the Ledger Source has no block yet: the height is queued.
FinLedgerQueue ==
    /\ fin.ph = "ledger"
    /\ Head(fin.todo) > ledgerTip
    /\ pendingGraphQLBlocks' = Enqueue(pendingGraphQLBlocks, Head(fin.todo))
    /\ fin' = FinAfter(Tail(fin.todo))
    /\ UNCHANGED <<scenario, db, nextBlockId, fails, idxVars, ledgerTip, ipc, imp, pb, nb,
                   quota, m0, gap, ca, finalizedHeight, call>>

\* ... insertGraphQLBlock fails: ROLLBACK, the error is caught and the height
\* is queued.
FinLedgerFail ==
    /\ fin.ph = "ledger"
    /\ Head(fin.todo) <= ledgerTip
    /\ fails < MaxFail
    /\ fails' = fails + 1
    /\ pendingGraphQLBlocks' = Enqueue(pendingGraphQLBlocks, Head(fin.todo))
    /\ fin' = FinAfter(Tail(fin.todo))
    /\ UNCHANGED <<scenario, db, nextBlockId, idxVars, ledgerTip, ipc, imp, pb, nb,
                   quota, m0, gap, ca, finalizedHeight, call>>

\* The Ledger Source indexes one more block.
LedgerAdvance ==
    /\ ledgerTip < finalizedHeight
    /\ ledgerTip' = ledgerTip + 1
    /\ UNCHANGED <<scenario, db, nextBlockId, fails, idxVars, ipc, imp, pb, nb, fin,
                   pendingGraphQLBlocks, quota, m0, gap, ca, finalizedHeight, call>>

\* The Chain-Source indexer runs indexBlock(h) against the same store.
ImpIndexStart(h) ==
    /\ quota.idx > 0
    /\ wk[h].ph = "idle"
    /\ quota' = [quota EXCEPT !.idx = @ - 1]
    /\ wk' = [wk EXCEPT ![h] = [IdleW EXCEPT !.ph = "fetch"]]
    /\ UNCHANGED <<scenario, db, nextBlockId, pc, currentBlock, batchEnd, startBlock,
                   cursor, inflight, run, fails, heads, failed, lost, cursorRun,
                   ledgerTip, ipc, imp, pb, nb, fin, pendingGraphQLBlocks, m0, gap, ca, finalizedHeight, call>>

InitImp ==
    /\ scenario = "shielded"
    /\ db = EmptyDb
    /\ nextBlockId = 1
    /\ wk = [h \in Heights |-> IdleW]
    /\ pc = "off"
    /\ currentBlock = 0
    /\ batchEnd = 0
    /\ startBlock = 0
    /\ cursor = 0
    /\ inflight = {}
    /\ run = 1
    /\ fails = 0
    /\ heads = 0
    /\ failed = {}
    /\ lost = {}
    /\ cursorRun = 0
    /\ ledgerTip = 0
    /\ ipc = "boot"
    /\ imp = IdleImp
    /\ pb = [t \in Callers |-> IdlePb]
    /\ nb = {}
    /\ fin = IdleFin
    /\ pendingGraphQLBlocks = <<>>
    /\ quota = [cli |-> MaxCli, idx |-> MaxIdx, newHead |-> MaxNewHeads,
                finHead |-> MaxFinHeads, finNext |-> 0]
    /\ m0 = 0
    /\ gap = IdleGap
    /\ ca = IdleCa
    /\ finalizedHeight = MaxImpHeight
    /\ call = NoCall

NextImp ==
    \/ ImpBoot
    \/ ImpConnect
    \/ ImpLoopBatch
    \/ ImpBatchReturned
    \/ ImpBatchThrew
    \/ ImpLoopEnd
    \/ FinUpdate
    \/ FinUpdateFail
    \/ FinLedgerImport
    \/ FinLedgerQueue
    \/ FinLedgerFail
    \/ LedgerAdvance
    \/ \E t \in Callers :
          \/ PbApply(t)
          \/ PbNullBlock(t)
          \/ PbFail(t)
          \/ PbCommit(t)
    \/ \E h \in ImpHeights :
          \/ CliProcessBlock(h)
          \/ NewHeadNotify(h)
          \/ NewBlockWrite(h)
          \/ NewBlockFail(h)
          \/ FinNotify(h)
    \/ \E h \in 1..MaxImpHeight :
          \/ ImpIndexStart(h)
          \/ IdxFetchFail(h)
          \/ IdxBegin(h)
          \/ IdxTx(h)
          \/ IdxTxLookupFail(h)
          \/ IdxAccounts(h)
          \/ IdxAbortedThrow(h)
          \/ IdxFail(h)
          \/ IdxCommit(h)

SpecImp == InitImp /\ [][NextImp]_vars

\* ------------------------------------------------- live ingestion on its own
\* startMidnightIndex after a catch-up that had nothing to import: only the
\* two head subscriptions run, and finalized heads arrive up to MaxLiveFinHeads
\* times.
MaxLiveFinHeads == 3

InitLive ==
    /\ scenario = "shielded"
    /\ db = EmptyDb
    /\ nextBlockId = 1
    /\ wk = [h \in Heights |-> IdleW]
    /\ pc = "off"
    /\ currentBlock = 0
    /\ batchEnd = 0
    /\ startBlock = 0
    /\ cursor = 0
    /\ inflight = {}
    /\ run = 1
    /\ fails = 0
    /\ heads = 0
    /\ failed = {}
    /\ lost = {}
    /\ cursorRun = 0
    /\ ledgerTip = 0
    /\ ipc = "live"
    /\ imp = IdleImp
    /\ pb = [t \in Callers |-> IdlePb]
    /\ nb = {}
    /\ fin = IdleFin
    /\ pendingGraphQLBlocks = <<>>
    /\ quota = [NoQuota EXCEPT !.newHead = MaxNewHeads, !.finHead = MaxLiveFinHeads]
    /\ m0 = 0
    /\ gap = IdleGap
    /\ ca = IdleCa
    /\ finalizedHeight = MaxImpHeight
    /\ call = NoCall

\* The next finalized head: here the chain finalizes block after block.
FinNotifyNext == quota.finNext \in ImpHeights /\ FinNotify(quota.finNext)

NextLive ==
    \/ FinNotifyNext
    \/ FinUpdate
    \/ FinUpdateFail
    \/ FinLedgerImport
    \/ FinLedgerQueue
    \/ FinLedgerFail
    \/ LedgerAdvance
    \/ \E h \in ImpHeights :
          \/ NewHeadNotify(h)
          \/ NewBlockWrite(h)
          \/ NewBlockFail(h)

\* Every await of the handler completes, the Ledger Source goes on indexing
\* and the chain goes on finalizing; failures are under no obligation.
SpecLive ==
    /\ InitLive
    /\ [][NextLive]_vars
    /\ WF_vars(FinNotifyNext)
    /\ WF_vars(FinUpdate)
    /\ WF_vars(FinLedgerImport)
    /\ WF_vars(FinLedgerQueue)
    /\ WF_vars(LedgerAdvance)

\* --------------------------------------- detectAndImportMissingBlocks
\* Highest height of the stores the backfill command is run on.
MaxGapHeight == 5
GapHeights == 0..MaxGapHeight

MinOf(S) == CHOOSE x \in S : \A y \in S : x <= y

\* SELECT MIN(height) FROM blocks; `if (!minHeight) return 0`.
getMinBlockHeight(d) == IF DOMAIN d.blocks = {} THEN 0 ELSE MinOf(DOMAIN d.blocks)

\* ORDER BY s.height
RECURSIVE SortAsc(_)
SortAsc(S) == IF S = {} THEN <<>> ELSE <<MinOf(S)>> \o SortAsc(S \ {MinOf(S)})

\* missingHeights with the rows in descending order.
RECURSIVE SortDesc(_)
SortDesc(S) == IF S = {} THEN <<>> ELSE <<MaxOf(S)>> \o SortDesc(S \ {MaxOf(S)})

missingHeightsDesc(d, minHeight, maxHeight) ==
    SortDesc({h \in minHeight..maxHeight : h \notin DOMAIN d.blocks})

\* generate_series(min, max) AS s LEFT JOIN blocks b ON b.height = s.height
\* WHERE b.height IS NULL ORDER BY s.height
missingHeights(d, minHeight, maxHeight) ==
    SortAsc({h \in minHeight..maxHeight : h \notin DOMAIN d.blocks})

\* A store holding exactly the heights S, each imported by processBatch.
RECURSIVE StoreOf(_)
StoreOf(S) ==
    IF S = {} THEN EmptyDb
    ELSE LET h == MaxOf(S)
             rest == StoreOf(S \ {h})
         IN insertGraphQLBlock(EmptyDb,
                               insertBlock(EmptyDb, rest, h, ChainAt("shielded", h), h + 1),
                               LedgerAt(h), h + 1)

InitGap ==
    /\ scenario = "shielded"
    /\ \E S \in SUBSET GapHeights : db = StoreOf(S)
    /\ nextBlockId = MaxGapHeight + 2
    /\ wk = [h \in Heights |-> IdleW]
    /\ pc = "off"
    /\ currentBlock = 0
    /\ batchEnd = 0
    /\ startBlock = 0
    /\ cursor = 0
    /\ inflight = {}
    /\ run = 1
    /\ fails = 0
    /\ heads = 0
    /\ failed = {}
    /\ lost = {}
    /\ cursorRun = 0
    /\ ledgerTip \in GapHeights
    /\ ipc = "off"
    /\ imp = IdleImp
    /\ pb = [t \in Callers |-> IdlePb]
    /\ nb = {}
    /\ fin = IdleFin
    /\ pendingGraphQLBlocks = <<>>
    /\ quota = NoQuota
    /\ m0 = 0
    /\ gap = [IdleGap EXCEPT !.ph = "boot"]
    /\ ca = IdleCa
    /\ finalizedHeight = MaxImpHeight
    /\ call = NoCall

gapRest == <<scenario, wk, pc, currentBlock, batchEnd, startBlock, cursor, inflight, run,
             heads, failed, lost, cursorRun, ledgerTip, ipc, imp, pb, nb, fin,
             pendingGraphQLBlocks, quota, m0, ca, finalizedHeight, call>>

\* getMinBlockHeight, getMaxBlockHeight, the empty-store return, the
\* missing-heights query and the no-gaps return.
GapDetect ==
    /\ gap.ph = "boot"
    /\ LET minHeight == getMinBlockHeight(db)
           maxHeight == getMaxBlockHeight(db)
           missing == missingHeights(db, minHeight, maxHeight)
       IN gap' = IF minHeight = 0 \/ maxHeight = 0
                 THEN [gap EXCEPT !.ph = "nostore", !.s0 = DOMAIN db.blocks]
                 ELSE IF Len(missing) = 0
                 THEN [gap EXCEPT !.ph = "nogaps", !.s0 = DOMAIN db.blocks]
                 ELSE [gap EXCEPT !.ph = "run", !.s0 = DOMAIN db.blocks,
                                  !.missingHeights = missing, !.i = 1]
    /\ UNCHANGED <<db, nextBlockId, fails, gapRest>>

\* The loops move on to the next missing height, or the function returns
\* importedCount.
GapStep(imported) ==
    [gap EXCEPT !.i = @ + 1,
                !.importedCount = IF imported THEN @ + 1 ELSE @,
                !.ph = IF gap.i = Len(gap.missingHeights) THEN "returned" ELSE "run"]

\* GapImport importing, with each missing height, the store's lowest height
\* again.
GapImportAlsoLowest ==
    LET h == gap.missingHeights[gap.i]
        l == MinOf(gap.s0)
        id == BlockIdFor(db, h)
        ov1 == insertBlock(db, EmptyDb, h, ChainAt(scenario, h), id)
        ov2 == IF h <= ledgerTip THEN insertGraphQLBlock(db, ov1, LedgerAt(h), id) ELSE ov1
        ov3 == insertBlock(db, ov2, l, ChainAt(scenario, l), BlockIdFor(db, l))
    IN /\ gap.ph = "run"
       /\ CanWrite("none", 0, ov3)
       /\ db' = MergeDb(db, ov3)
       /\ nextBlockId' = IF h \in DOMAIN db.blocks THEN nextBlockId ELSE nextBlockId + 1
       /\ gap' = GapStep(TRUE)
       /\ UNCHANGED <<fails, gapRest>>

\* One missing height, the Chain Source's block fetched: a transaction with
\* insertBlock and, if the Ledger Source has the block, insertGraphQLBlock.
GapImport ==
    LET h == gap.missingHeights[gap.i]
        id == BlockIdFor(db, h)
        ov1 == insertBlock(db, EmptyDb, h, ChainAt(scenario, h), id)
        ov2 == IF h <= ledgerTip THEN insertGraphQLBlock(db, ov1, LedgerAt(h), id) ELSE ov1
    IN /\ gap.ph = "run"
       /\ CanWrite("none", 0, ov2)
       /\ db' = MergeDb(db, ov2)
       /\ nextBlockId' = IF h \in DOMAIN db.blocks THEN nextBlockId ELSE nextBlockId + 1
       /\ gap' = GapStep(TRUE)
       /\ UNCHANGED <<fails, gapRest>>

\* getBlockDataByHeight throws: the height is imported from the Ledger Source
\* alone, or skipped when that has no block either.
GapChainFetchFail ==
    LET h == gap.missingHeights[gap.i]
        ov1 == insertGraphQLBlock(db, EmptyDb, LedgerAt(h), BlockIdFor(db, h))
    IN /\ gap.ph = "run"
       /\ fails < MaxFail
       /\ fails' = fails + 1
       /\ IF h <= ledgerTip
          THEN /\ CanWrite("none", 0, ov1)
               /\ db' = MergeDb(db, ov1)
               /\ nextBlockId' = IF h \in DOMAIN db.blocks THEN nextBlockId
                                  ELSE nextBlockId + 1
               /\ gap' = GapStep(TRUE)
          ELSE /\ gap' = GapStep(FALSE)
               /\ UNCHANGED <<db, nextBlockId>>
       /\ UNCHANGED gapRest

\* A statement of the height's transaction fails: ROLLBACK, the error is
\* logged and the loop goes on.
GapStoreFail ==
    /\ gap.ph = "run"
    /\ fails < MaxFail
    /\ fails' = fails + 1
    /\ gap' = GapStep(FALSE)
    /\ UNCHANGED <<db, nextBlockId, gapRest>>

NextGap ==
    \/ GapDetect
    \/ GapImport
    \/ GapChainFetchFail
    \/ GapStoreFail

SpecGap == InitGap /\ [][NextGap]_vars

\* ------------------------------------------------ catch-up on a longer chain
\* startImporting alone, with one processBlock call of the command line, on
\* a chain long enough for several batches.
MaxCatchHeight == 4

InitCatch ==
    /\ scenario = "shielded"
    /\ db = EmptyDb
    /\ nextBlockId = 1
    /\ wk = [h \in Heights |-> IdleW]
    /\ pc = "off"
    /\ currentBlock = 0
    /\ batchEnd = 0
    /\ startBlock = 0
    /\ cursor = 0
    /\ inflight = {}
    /\ run = 1
    /\ fails = 0
    /\ heads = 0
    /\ failed = {}
    /\ lost = {}
    /\ cursorRun = 0
    /\ ledgerTip = 0
    /\ ipc = "boot"
    /\ imp = IdleImp
    /\ pb = [t \in Callers |-> IdlePb]
    /\ nb = {}
    /\ fin = IdleFin
    /\ pendingGraphQLBlocks = <<>>
    /\ quota = [NoQuota EXCEPT !.cli = MaxCli]
    /\ m0 = 0
    /\ gap = IdleGap
    /\ ca = IdleCa
    /\ finalizedHeight = MaxCatchHeight
    /\ call = NoCall

NextCatch ==
    \/ ImpBoot
    \/ ImpConnect
    \/ ImpLoopBatch
    \/ ImpBatchReturned
    \/ ImpBatchThrew
    \/ ImpLoopEnd
    \/ LedgerAdvance
    \/ \E t \in Callers :
          \/ PbApply(t)
          \/ PbNullBlock(t)
          \/ PbFail(t)
          \/ PbCommit(t)
    \/ \E h \in 0..MaxCatchHeight : CliProcessBlock(h)

SpecCatch == InitCatch /\ [][NextCatch]_vars


\* ------------------------------------------- insertContractActions, alone
\* The contract actions of one Ledger Source transaction, written by
\* insertTransaction's call of insertContractActions inside the caller's
\* database transaction.
MaxCaActions == 2
MaxCaBalances == 2
MaxCaRuns == 2
CaTokenTypes == {"tokA", "tokB"}
CaAmounts == {1, 2}
CaTxHash == "t1"

SeqsUpTo(S, n) == UNION {[1..k -> S] : k \in 0..n}

\* unshieldedBalances as the query returns them: __typename is on the
\* objects only when the query document selects it (typed).
CaBalanceSeqs == SeqsUpTo([amount : CaAmounts, tokenType : CaTokenTypes], MaxCaBalances)

CaActions ==
    [typename : {"ContractCall"}, entryPoint : {"swap", "mint"},
     address : {"c1"}, unshieldedBalances : CaBalanceSeqs]
    \cup [typename : {"ContractDeploy"}, entryPoint : {NullStr},
          address : {"c1"}, unshieldedBalances : CaBalanceSeqs]

isContractCall(action) == action.typename = "ContractCall"

\* '__typename' in balance && balance.__typename === 'ContractBalance'
isContractBalance(typed) == typed

\* INSERT INTO tx_contract_action_balances ... ON CONFLICT
\* (tx_contract_action_id, type_name) DO UPDATE SET amount, token_type.
insertContractActionBalance(t, balance, contractActionId) ==
    [t EXCEPT !.tx_contract_action_balances =
        Upsert(@, <<contractActionId, "ContractBalance">>,
               [amount |-> balance.amount, token_type |-> balance.tokenType])]

RECURSIVE insertContractActionBalances(_, _, _, _, _)
insertContractActionBalances(t, typed, balances, j, contractActionId) ==
    IF j > Len(balances) THEN t
    ELSE insertContractActionBalances(
             IF isContractBalance(typed)
             THEN insertContractActionBalance(t, balances[j], contractActionId)
             ELSE t,
             typed, balances, j + 1, contractActionId)

\* The tx_contract_actions upsert, ON CONFLICT (tx_id, index_in_tx): a new
\* row draws an id, a row in conflict keeps its id and its type_name and address.
ContractActionRow(t, action, txId, index) ==
    LET k == <<txId, index>>
        old == IF k \in DOMAIN t.tx_contract_actions THEN t.tx_contract_actions[k]
               ELSE [id |-> t.nextId, type_name |-> action.typename,
                     address |-> action.address, tx_hash |-> "", entry_point |-> NullStr]
    IN [old EXCEPT !.tx_hash = CaTxHash, !.entry_point = action.entryPoint]

\* insertContractActions: the loop over tx.contractActions from position i,
\* index counting the contract calls met so far.
RECURSIVE insertContractActions(_, _, _, _, _, _)
insertContractActions(t, typed, actions, i, index, txId) ==
    IF i > Len(actions) THEN t
    ELSE IF ~isContractCall(actions[i])
    THEN insertContractActions(t, typed, actions, i + 1, index, txId)
    ELSE LET row == ContractActionRow(t, actions[i], txId, index)
             t1 == [t EXCEPT !.tx_contract_actions = Upsert(@, <<txId, index>>, row),
                             !.nextId = IF row.id = t.nextId THEN @ + 1 ELSE @]
             t2 == insertContractActionBalances(t1, typed, actions[i].unshieldedBalances,
                                                1, row.id)
         IN insertContractActions(t2, typed, actions, i + 1, index + 1, txId)

caRest == <<scenario, db, nextBlockId, wk, pc, currentBlock, batchEnd, startBlock, cursor,
            inflight, run, heads, failed, lost, cursorRun, ledgerTip, ipc, imp, pb, nb, fin,
            pendingGraphQLBlocks, quota, m0, gap, finalizedHeight, call>>

InitCa ==
    /\ scenario = "transfers"
    /\ db = EmptyDb
    /\ nextBlockId = 1
    /\ wk = [h \in Heights |-> IdleW]
    /\ pc = "off"
    /\ currentBlock = 0
    /\ batchEnd = 0
    /\ startBlock = 0
    /\ cursor = 0
    /\ inflight = {}
    /\ run = 1
    /\ fails = 0
    /\ heads = 0
    /\ failed = {}
    /\ lost = {}
    /\ cursorRun = 0
    /\ ledgerTip = 0
    /\ ipc = "off"
    /\ imp = IdleImp
    /\ pb = [t \in Callers |-> IdlePb]
    /\ nb = {}
    /\ fin = IdleFin
    /\ pendingGraphQLBlocks = <<>>
    /\ quota = NoQuota
    /\ m0 = 0
    /\ gap = IdleGap
    /\ finalizedHeight = MaxImpHeight
    /\ call = NoCall
    /\ \E typed \in BOOLEAN, actions \in SeqsUpTo(CaActions, MaxCaActions) :
          ca = [IdleCa EXCEPT !.typed = typed, !.contractActions = actions]

\* The transaction is imported: insertContractActions runs to its end and
\* the caller commits.
CaImport ==
    /\ ca.ph \in {"idle", "done", "failed"}
    /\ ca.runs < MaxCaRuns
    /\ ca' = [ca EXCEPT !.ph = "done", !.runs = @ + 1,
                        !.tables = insertContractActions(ca.tables, ca.typed,
                                                         ca.contractActions, 1, 0, 1)]
    /\ UNCHANGED <<fails, caRest>>

\* A statement fails: the error leaves insertContractActions and the caller
\* rolls back.
CaImportFail ==
    /\ ca.ph \in {"idle", "done", "failed"}
    /\ ca.runs < MaxCaRuns
    /\ fails < MaxFail
    /\ fails' = fails + 1
    /\ ca' = [ca EXCEPT !.ph = "failed", !.runs = @ + 1]
    /\ UNCHANGED caRest

NextCa ==
    \/ CaImport
    \/ CaImportFail

SpecCa == InitCa /\ [][NextCa]_vars

\* --------------------------------------------------- one function at a time
\* Every variable but call, at rest.
callRest == <<scenario, db, nextBlockId, wk, pc, currentBlock, batchEnd, startBlock, cursor,
              inflight, run, fails, heads, failed, lost, cursorRun, ledgerTip, ipc, imp, pb,
              nb, fin, pendingGraphQLBlocks, quota, m0, gap, ca, finalizedHeight>>

RestOff ==
    /\ scenario = "transfers"
    /\ db = EmptyDb
    /\ nextBlockId = 1
    /\ wk = [h \in Heights |-> IdleW]
    /\ pc = "off"
    /\ currentBlock = 0
    /\ batchEnd = 0
    /\ startBlock = 0
    /\ cursor = 0
    /\ inflight = {}
    /\ run = 1
    /\ fails = 0
    /\ heads = 0
    /\ failed = {}
    /\ lost = {}
    /\ cursorRun = 0
    /\ ledgerTip = 0
    /\ ipc = "off"
    /\ imp = IdleImp
    /\ pb = [t \in Callers |-> IdlePb]
    /\ nb = {}
    /\ fin = IdleFin
    /\ pendingGraphQLBlocks = <<>>
    /\ quota = NoQuota
    /\ m0 = 0
    /\ gap = IdleGap
    /\ ca = IdleCa
    /\ finalizedHeight = MaxImpHeight

\* ------------------------------------------ one Ledger-Source transaction
\* importFinalizedBlock's import of a Ledger-Source block of one transaction,
\* with the transaction's child rows. The transactions of LtxTransactions
\* have no identifiers, no result segments and no contract actions.
MaxLtxRuns == 2
MaxLtxList == 2

SeqsNoRep(S, n) == {q \in SeqsUpTo(S, n) : \A i, j \in DOMAIN q : q[i] = q[j] => i = j}

\* String.prototype.toLowerCase on the owners of the model.
LowerOwner(s) == IF s = "mn_B" THEN "mn_b" ELSE s

LtxUtxos == {[owner |-> "mn_a", value |-> 1], [owner |-> "mn_B", value |-> 2]}
LtxZswapEvents == {[id |-> 1, maxId |-> 1], [id |-> 2, maxId |-> 2]}
LtxDustEvents == {[typename |-> "DustInitialUtxo", id |-> 3], [typename |-> "none", id |-> 4]}

LtxTransactions ==
    [typename : {"RegularTransaction", "none"},
     hash : {"t1"},
     unshieldedCreatedOutputs : SeqsNoRep(LtxUtxos, MaxLtxList),
     unshieldedSpentOutputs : SeqsNoRep(LtxUtxos, MaxLtxList - 1),
     zswapLedgerEvents : SeqsNoRep(LtxZswapEvents, MaxLtxList),
     dustLedgerEvents : SeqsNoRep(LtxDustEvents, MaxLtxList)]

EmptyLtx ==
    [transactions |-> <<>>, addresses |-> {}, tx_outputs |-> <<>>, tx_inputs |-> <<>>,
     tx_zswap_ledger_events |-> <<>>, tx_dust_ledger_events |-> <<>>]

isRegularTransaction(tx) == tx.typename = "RegularTransaction"
isSystemTransaction(tx) == tx.typename = "SystemTransaction"
isKnownDustEvent(event) ==
    event.typename \in {"DustGenerationDtimeUpdate", "DustInitialUtxo", "DustSpendProcessed",
                        "ParamChange"}

\* insertUnshieldedOutput: the owner is lower-cased, its address upserted and
\* the row upserted ON CONFLICT (tx_id, index).
RECURSIVE insertUnshieldedOutput(_, _, _, _, _)
insertUnshieldedOutput(t, table, ios, i, txId) ==
    IF i > Len(ios) THEN t
    ELSE LET owner == LowerOwner(ios[i].owner)
             row == [account_addr |-> owner, value |-> ios[i].value, shielded |-> FALSE]
             t1 == [t EXCEPT !.addresses = @ \cup {owner}]
             t2 == IF table = "tx_outputs"
                   THEN [t1 EXCEPT !.tx_outputs = Upsert(@, <<txId, i - 1>>, row)]
                   ELSE [t1 EXCEPT !.tx_inputs = Upsert(@, <<txId, i - 1>>, row)]
         IN insertUnshieldedOutput(t2, table, ios, i + 1, txId)

insertUnshieldedOutputs(t, tx, txId) ==
    insertUnshieldedOutput(t, "tx_outputs", tx.unshieldedSpentOutputs, 1, txId)

insertUnshieldedInputs(t, tx, txId) ==
    insertUnshieldedOutput(t, "tx_inputs", tx.unshieldedCreatedOutputs, 1, txId)

\* insertZSwapLedgerEvents: ON CONFLICT (tx_id, index_in_tx, event_id).
RECURSIVE insertZSwapLedgerEvents(_, _, _, _)
insertZSwapLedgerEvents(t, events, i, txId) ==
    IF i > Len(events) THEN t
    ELSE insertZSwapLedgerEvents(
             [t EXCEPT !.tx_zswap_ledger_events =
                 Upsert(@, <<txId, i - 1, events[i].id>>, [max_id |-> events[i].maxId])],
             events, i + 1, txId)

\* insertDustLedgerEvents throws at the first event of no known type.
DustThrows(tx) == \E i \in DOMAIN tx.dustLedgerEvents : ~isKnownDustEvent(tx.dustLedgerEvents[i])

\* insertDustLedgerEvents: ON CONFLICT (tx_id, index_in_tx).
RECURSIVE insertDustLedgerEvents(_, _, _, _)
insertDustLedgerEvents(t, events, i, txId) ==
    IF i > Len(events) THEN t
    ELSE insertDustLedgerEvents(
             [t EXCEPT !.tx_dust_ledger_events =
                 Upsert(@, <<txId, i - 1>>,
                        [event_id |-> events[i].id, event_name |-> events[i].typename])],
             events, i + 1, txId)

\* insertTransaction throws for a transaction of no known type, and lets
\* insertDustLedgerEvents' error through.
LtxThrows(tx) == ~(isRegularTransaction(tx) \/ isSystemTransaction(tx)) \/ DustThrows(tx)

\* insertTransaction with its child rows: the transactions row ON CONFLICT
\* (hash), then outputs, inputs, zswap and dust ledger events.
LtxInsertTransaction(t, tx) ==
    LET id == IF tx.hash \in DOMAIN t.transactions THEN t.transactions[tx.hash].id
              ELSE Cardinality(DOMAIN t.transactions) + 1
        t1 == [t EXCEPT !.transactions = Upsert(@, tx.hash, [id |-> id, raw |-> "ledger"])]
        t2 == insertUnshieldedOutputs(t1, tx, id)
        t3 == insertUnshieldedInputs(t2, tx, id)
        t4 == insertZSwapLedgerEvents(t3, tx.zswapLedgerEvents, 1, id)
    IN insertDustLedgerEvents(t4, tx.dustLedgerEvents, 1, id)

InitLtx ==
    /\ RestOff
    /\ call = [op |-> "importFinalizedBlock", ph |-> "queued", runs |-> 0,
               tx |-> CHOOSE tx \in LtxTransactions : TRUE, tables |-> EmptyLtx]

\* BEGIN, insertGraphQLBlock, COMMIT.
LtxImport ==
    /\ call.op = "importFinalizedBlock"
    /\ call.runs < MaxLtxRuns
    /\ \E tx \in LtxTransactions :
          /\ ~LtxThrows(tx)
          /\ call' = [call EXCEPT !.ph = "committed", !.runs = @ + 1, !.tx = tx,
                                  !.tables = LtxInsertTransaction(@, tx)]
    /\ UNCHANGED callRest

\* BEGIN, insertGraphQLBlock throws, ROLLBACK; the height is queued again.
LtxImportThrows ==
    /\ call.op = "importFinalizedBlock"
    /\ call.runs < MaxLtxRuns
    /\ \E tx \in LtxTransactions :
          /\ LtxThrows(tx)
          /\ call' = [call EXCEPT !.ph = "queued", !.runs = @ + 1, !.tx = tx]
    /\ UNCHANGED callRest

NextLtx ==
    \/ LtxImport
    \/ LtxImportThrows

SpecLtx == InitLtx /\ [][NextLtx]_vars

\* ----------------------------------------------------------- connectToChain
\* connectToChain, called up to MaxConnCalls times; between calls the
\* connection may drop. An attempt fails at ApiPromise.create or at one of
\* the three rpc calls that follow it.
MaxConnCalls == 2
maxRetries == 3
ConnErrors == {"create", "chain", "name", "version"}

ConnCalled(api, calls) ==
    [op |-> "connectToChain", ph |-> "called", api |-> api, calls |-> calls, attempt |-> 0,
     attempts |-> 0, oks |-> 0, waits |-> 0, errors |-> <<>>]

InitConn ==
    /\ RestOff
    /\ \E api \in {"null", "connected", "disconnected"} : call = ConnCalled(api, 1)

\* if (api && api.isConnected) return api; otherwise the loop starts.
ConnEnter ==
    /\ call.op = "connectToChain"
    /\ call.ph = "called"
    /\ call' = IF call.api = "connected" THEN [call EXCEPT !.ph = "returned"]
               ELSE [call EXCEPT !.ph = "attempting", !.attempt = 1]
    /\ UNCHANGED callRest

\* The attempt succeeds: return api.
ConnAttemptOk ==
    /\ call.op = "connectToChain"
    /\ call.ph = "attempting"
    /\ call' = [call EXCEPT !.ph = "returned", !.api = "connected", !.attempts = @ + 1,
                            !.oks = @ + 1]
    /\ UNCHANGED callRest

\* A variant that retries after every failure.
ConnAttemptFailRetries ==
    /\ call.op = "connectToChain"
    /\ call.ph = "attempting"
    /\ call.attempt <= maxRetries
    /\ \E e \in ConnErrors :
          call' = [call EXCEPT !.ph = "waiting", !.attempts = @ + 1,
                               !.errors = Append(@, e),
                               !.api = IF e = "create" THEN @ ELSE "disconnected"]
    /\ UNCHANGED callRest

\* The attempt fails: the error is kept, and either the retry timer is set
\* or, after the last attempt, the loop ends and connectToChain throws. An
\* attempt that fails after ApiPromise.create has replaced api.
ConnAttemptFail ==
    /\ call.op = "connectToChain"
    /\ call.ph = "attempting"
    /\ \E e \in ConnErrors :
          call' = [call EXCEPT !.ph = IF call.attempt < maxRetries THEN "waiting" ELSE "threw",
                               !.attempts = @ + 1,
                               !.errors = Append(@, e),
                               !.api = IF e = "create" THEN @ ELSE "disconnected"]
    /\ UNCHANGED callRest

\* The one-second timer fires and the next attempt starts.
ConnWaited ==
    /\ call.op = "connectToChain"
    /\ call.ph = "waiting"
    /\ call' = [call EXCEPT !.ph = "attempting", !.attempt = @ + 1, !.waits = @ + 1]
    /\ UNCHANGED callRest

\* The connection drops after connectToChain has returned.
ConnDrop ==
    /\ call.op = "connectToChain"
    /\ call.ph = "returned"
    /\ call.api = "connected"
    /\ call' = [call EXCEPT !.api = "disconnected"]
    /\ UNCHANGED callRest

\* The next call of connectToChain.
ConnCall ==
    /\ call.op = "connectToChain"
    /\ call.ph \in {"returned", "threw"}
    /\ call.calls < MaxConnCalls
    /\ call' = ConnCalled(call.api, call.calls + 1)
    /\ UNCHANGED callRest

NextConn ==
    \/ ConnEnter
    \/ ConnAttemptOk
    \/ ConnAttemptFail
    \/ ConnWaited
    \/ ConnDrop
    \/ ConnCall

SpecConn == InitConn /\ [][NextConn]_vars

\* isTransactionLike on every section and method of ClsSections, ClsMethods.
ClsSections ==
    {"timestamp", "parachainSystem", "system", "balances", "balancesX", "assets",
     "midnightTx", "compact", "utility", "utilityX", "session"}
ClsMethods ==
    {"set", "setValidationData", "remark", "remarkWithEvent", "transfer", "batch",
     "batchAll", "batchX", "forceBatch", "forceBatchX", "force"}

InitCls ==
    /\ RestOff
    /\ \E section \in ClsSections, method \in ClsMethods, isSigned \in BOOLEAN :
          call = [op |-> "isTransactionLike", ph |-> "called", section |-> section,
                  method |-> method, isSigned |-> isSigned, res |-> FALSE]

Classify ==
    /\ call.op = "isTransactionLike"
    /\ call.ph = "called"
    /\ call' = [call EXCEPT !.ph = "returned",
                            !.res = isTransactionLike(call.section, call.method,
                                                      call.isSigned)]
    /\ UNCHANGED callRest

SpecCls == InitCls /\ [][Classify]_vars

\* ------------------------------------- whole transactions, for the claims
\* The overlay a run of indexBlock(h) holds at COMMIT when no statement fails.
RECURSIVE IdxAllTx(_, _, _, _, _)
IdxAllTx(base, ov, h, blockId, i) ==
    IF i = 0 THEN ov
    ELSE LET exts == ChainAt(scenario, h).exts
             r == IdxTxStatements(base, ov, exts[i], blockId, i, h, 0)
         IN IdxAllTx(base,
                     updateAccountsAndRelatedTables(base, r.ov, NormHash(exts[i].hash),
                                                    blockId, r.accts, r.atx, r.notes),
                     h, blockId, NextTxLike(exts, i))

IdxAll(base, h, blockId) ==
    LET blk == ChainAt(scenario, h)
        ov1 == [EmptyDb EXCEPT !.blocks = Upsert(@, h, IdxBlockRow(base, h, blk, blockId)),
                               !.extrinsics = IdxExtrinsicRows(base, blk, blockId)]
    IN IdxAllTx(base, ov1, h, blockId, NextTxLike(blk.exts, 0))

\* The overlay processBatch(hs) holds at COMMIT when no statement fails; held
\* is the overlay of the open transaction, read for the ids its inserts drew.
RECURSIVE PbAll(_, _, _, _, _)
PbAll(base, ov, hs, j, held) ==
    IF j > Len(hs) THEN ov
    ELSE LET id == BlockIdFor(MergeDb(base, held), hs[j])
         IN PbAll(base,
                  insertGraphQLBlock(base,
                                     insertBlock(base, ov, hs[j], ChainAt(scenario, hs[j]), id),
                                     LedgerAt(hs[j]), id),
                  hs, j + 1, held)

\* Every row of overlay ov has a row of its key in d.
HasAll(d, ov) ==
    /\ DOMAIN ov.blocks \subseteq DOMAIN d.blocks
    /\ DOMAIN ov.extrinsics \subseteq DOMAIN d.extrinsics
    /\ DOMAIN ov.transactions \subseteq DOMAIN d.transactions
    /\ DOMAIN ov.tx_outputs \subseteq DOMAIN d.tx_outputs
    /\ DOMAIN ov.tx_inputs \subseteq DOMAIN d.tx_inputs
    /\ DOMAIN ov.accounts \subseteq DOMAIN d.accounts
    /\ DOMAIN ov.account_tx \subseteq DOMAIN d.account_tx
    /\ DOMAIN ov.account_balances \subseteq DOMAIN d.account_balances
    /\ DOMAIN ov.shielded_notes \subseteq DOMAIN d.shielded_notes

\* ------------------------------------------------------ hashes as written
\* The writers of blocks and transactions rows, one after the other on one
\* store: insertBlock with getBlockData's block, insertGraphQLBlock with the
\* Ledger Source's block, and indexBlock.
MaxHashWrites == 3

hashRest == <<scenario, wk, pc, currentBlock, batchEnd, startBlock, cursor, inflight, run,
              fails, heads, failed, lost, cursorRun, ledgerTip, ipc, imp, pb, nb, fin,
              pendingGraphQLBlocks, quota, m0, gap, ca, finalizedHeight>>

InitHash ==
    /\ RestOff
    /\ call = [op |-> "write", writes |-> 0, by |-> "none", h |-> 0]

HashWritten(by, h, ov) ==
    /\ call.op = "write"
    /\ call.writes < MaxHashWrites
    /\ call' = [call EXCEPT !.writes = @ + 1, !.by = by, !.h = h]
    /\ db' = MergeDb(db, ov)
    /\ nextBlockId' = IF h \in DOMAIN db.blocks THEN nextBlockId ELSE nextBlockId + 1
    /\ UNCHANGED hashRest

HashInsertBlock(h) ==
    /\ h \in ImpHeights
    /\ HashWritten("insertBlock", h,
                   insertBlock(db, EmptyDb, h, ChainAt(scenario, h), BlockIdFor(db, h)))

HashInsertGraphQLBlock(h) ==
    /\ h \in ImpHeights
    /\ HashWritten("insertGraphQLBlock", h,
                   insertGraphQLBlock(db, EmptyDb, LedgerAt(h), BlockIdFor(db, h)))

HashIndexBlock(h) ==
    /\ h \in Heights
    /\ HashWritten("indexBlock", h, IdxAll(db, h, BlockIdFor(db, h)))

NextHash ==
    \E h \in ImpHeights :
        \/ HashInsertBlock(h)
        \/ HashInsertGraphQLBlock(h)
        \/ HashIndexBlock(h)

SpecHash == InitHash /\ [][NextHash]_vars

\* ------------------------------------------------------------------ claims
Restrict(t, S) == [k \in S |-> t[k]]

\* The rows of the store that belong to height h.
RowsOf(d, h) ==
    LET id == d.blocks[h].id
        txs == {k \in DOMAIN d.transactions : d.transactions[k].block_id = id}
    IN [block |-> d.blocks[h],
        extrinsics |-> Restrict(d.extrinsics, {k \in DOMAIN d.extrinsics : k[1] = id}),
        transactions |-> Restrict(d.transactions, txs),
        tx_outputs |-> Restrict(d.tx_outputs, {k \in DOMAIN d.tx_outputs : k[1] \in txs}),
        tx_inputs |-> Restrict(d.tx_inputs, {k \in DOMAIN d.tx_inputs : k[1] \in txs}),
        account_tx |-> Restrict(d.account_tx, {k \in DOMAIN d.account_tx : k[2] \in txs}),
        account_balances |->
            Restrict(d.account_balances, {k \in DOMAIN d.account_balances : k[2] = id}),
        shielded_notes |->
            Restrict(d.shielded_notes,
                     {c \in DOMAIN d.shielded_notes : d.shielded_notes[c].created_block_id = id})]

\* indexBlock(h) commits while the store already holds height h.
ReimportCommits(h) ==
    /\ wk[h].ph = "commit"
    /\ wk'[h].ph = "ok"
    /\ h \in DOMAIN db.blocks

\* C1 (idempotence of import): a run of indexBlock on a height that an
\* earlier run has committed leaves the rows of that height, with all their
\* column values, as the first run left them.
C1_ReimportLeavesRows ==
    [][\A h \in Heights : ReimportCommits(h) => RowsOf(db', h) = RowsOf(db, h)]_vars

\* C2 (at-most-once spend): no two distinct tx_inputs rows of the committed
\* store carry the same non-null prev_output_id.
C2_AtMostOnceSpend ==
    \A i1, i2 \in DOMAIN db.tx_inputs :
        (/\ i1 # i2
         /\ db.tx_inputs[i1].prev_output_id # NoOutput)
        => db.tx_inputs[i1].prev_output_id # db.tx_inputs[i2].prev_output_id

\* The movement of account a in the block at height h, from the block's
\* Transfer events: what a received minus what a sent.
RECURSIVE NetOfEvents(_, _, _)
NetOfEvents(evs, a, k) ==
    IF k > Len(evs) THEN 0
    ELSE LET ev == evs[k]
             counts == ev.kind = "Transfer" /\ ev.amount > 0 /\ ev.to # NoAddr
             in == IF counts /\ Lower(ev.to) = a THEN ev.amount ELSE 0
             out == IF counts /\ ev.from # NoAddr /\ Lower(ev.from) = a THEN ev.amount ELSE 0
         IN in - out + NetOfEvents(evs, a, k + 1)

RECURSIVE NetOfBlock(_, _, _)
NetOfBlock(exts, a, j) ==
    IF j > Len(exts) THEN 0
    ELSE NetOfEvents(exts[j].events, a, 1) + NetOfBlock(exts, a, j + 1)

HeightOfId(d, id) == CHOOSE h \in DOMAIN d.blocks : d.blocks[h].id = id

\* The latest snapshot of a among the blocks below the height of block `id`.
SnapshotBefore(d, a, id) ==
    LET rows == {k \in DOMAIN d.account_balances :
                    k[1] = a /\ HeightOfId(d, k[2]) < HeightOfId(d, id)}
    IN IF rows = {} THEN 0
       ELSE d.account_balances[CHOOSE k \in rows :
                \A k2 \in rows : HeightOfId(d, k[2]) >= HeightOfId(d, k2[2])]

\* C3 (balance recomputation): every account_balances snapshot of the
\* committed store equals the account's latest snapshot of an earlier block
\* plus the account's movements in the snapshot's block, however often the
\* block was processed.
C3_BalanceIsPrevPlusMovement ==
    \A k \in DOMAIN db.account_balances :
        db.account_balances[k] =
            SnapshotBefore(db, k[1], k[2])
              + NetOfBlock(ChainAt(scenario, HeightOfId(db, k[2])).exts, k[1], 1)

\* C7 (checkpoint safety): whenever the cursor row holds a value c written
\* by the running catch-up, every height from the run's start block through
\* c is committed in the store.
C7_CursorCovered ==
    (cursorRun = run /\ pc # "boot")
    => \A h \in startBlock..cursor : h \in DOMAIN db.blocks

\* C8 (resumability): once a later run has finished its catch-up without a
\* failure, every height whose indexBlock failed in an earlier run is in the
\* store.
C8_FailedHeightRetried ==
    (pc = "live" /\ run > 1 /\ failed = {})
    => \A h \in lost : h \in DOMAIN db.blocks

ChainOwned(r) == <<r.fee, r.total_input, r.total_output, r.is_shielded, r.status>>
LedgerOwned(r) ==
    <<r.transaction_id, r.paid_fees, r.estimated_fees, r.start_index, r.end_index>>

\* C4 (reconciliation merge): when one source writes a transactions row that
\* the other source wrote last, the row stays and the fields the other
\* source owns keep their values.
C4_MergeKeepsOwnedFields ==
    [][\A k \in DOMAIN db.transactions :
          /\ k \in DOMAIN db'.transactions
          /\ (db.transactions[k].raw = "chain" /\ db'.transactions[k].raw = "ledger")
             => ChainOwned(db'.transactions[k]) = ChainOwned(db.transactions[k])
          /\ (db.transactions[k].raw = "ledger" /\ db'.transactions[k].raw = "chain")
             => LedgerOwned(db'.transactions[k]) = LedgerOwned(db.transactions[k])]_vars

\* The step is the failure of the ledger import of importFinalizedBlock's
\* own height, and no processBatch has committed.
FinOwnImportFails ==
    /\ fin.ph = "ledger"
    /\ Head(fin.todo) = fin.h
    /\ fails' = fails + 1
    /\ fin' # fin
    /\ \A t \in Callers : pb[t].ph # "done"

C9_CatchUpCovers ==
    ipc = "live"
    => \A h \in (m0 + 1)..getFinalizedBlockHeight : h \in DOMAIN db.blocks

\* C10 (finality is monotonic): no step removes a blocks row or sets
\* is_finalized of a row back from TRUE to FALSE.
C10_FinalityMonotonic ==
    [][\A h \in DOMAIN db.blocks :
          /\ h \in DOMAIN db'.blocks
          /\ db.blocks[h].is_finalized => db'.blocks[h].is_finalized]_vars

\* C11: note status monotonicity.  Over every step, a shielded_notes row that
\* is spent (status 1) is still in the store and still spent afterwards; a
\* row's status only ever goes from 0 to 1.
C11_NoteStatusMonotonic ==
    [][\A c \in DOMAIN db.shielded_notes :
          /\ c \in DOMAIN db'.shielded_notes
          /\ db.shielded_notes[c].status = 1 => db'.shielded_notes[c].status = 1]_vars

\* A spent note that the head callback's run of indexBlock on the latest
\* block has upserted again, after an earlier block had spent it.
C11_Witness ==
    /\ heads > 0
    /\ wk[latestBlock].ph = "ok"
    /\ \E c \in DOMAIN db.shielded_notes :
          /\ db.shielded_notes[c].status = 1
          /\ db.shielded_notes[c].spent_tx_id # NormHash(TxHashOf(latestBlock))
          /\ db.shielded_notes[c].created_tx_id = NormHash(TxHashOf(latestBlock))

\* h is an element of the sequence q.
InSeq(q, h) == \E j \in 1..Len(q) : q[j] = h

\* The store holds the Ledger Source's block of height h.
LedgerImported(d, h) == h \in DOMAIN d.blocks /\ d.blocks[h].author # NullStr

\* Finalized heads that can still arrive.
HeadsLeft == Min(quota.finHead, MaxImpHeight + 1 - quota.finNext)

C13_LagDoesNotFailBatch ==
    [][\A t \in Callers :
          (/\ pb[t].ph = "run"
           /\ pb[t].k < Len(pb[t].hs)
           /\ pb[t].hs[pb[t].k + 1] > pb[t].avail
           /\ fails' = fails)
          => pb'[t].ph # "failed"]_vars

\* The elements of a sequence.
Range(q) == {q[j] : j \in 1..Len(q)}

\* C14 (gap detection): for a store whose lowest height is at least 1, the
\* missing heights detectAndImportMissingBlocks computes are exactly the
\* heights between the store's lowest and highest height that the store does
\* not hold, in ascending order.
C14_GapDetection ==
    (gap.ph \in {"nogaps", "run", "returned"} /\ gap.s0 # {} /\ MinOf(gap.s0) >= 1)
    => /\ Range(gap.missingHeights)
            = {h \in MinOf(gap.s0)..MaxOf(gap.s0) : h \notin gap.s0}
       /\ \A j, k \in 1..Len(gap.missingHeights) :
              j < k => gap.missingHeights[j] < gap.missingHeights[k]

\* Detection has found two or more missing heights that are not adjacent.
C14_Witness ==
    /\ gap.ph = "run"
    /\ MinOf(gap.s0) >= 1
    /\ Len(gap.missingHeights) >= 2
    /\ gap.missingHeights[2] > gap.missingHeights[1] + 1

\* C15 (backfill): a run of detectAndImportMissingBlocks in which no fetch
\* and no statement fails leaves the store with the heights it had plus the
\* missing heights, each with the Ledger Source's data where that source has
\* the block, returns the number of missing heights, and a detection on the
\* store it leaves finds nothing; no step of the run changes a blocks row
\* that the store already held.
C15_BackfillExact ==
    /\ []((gap.ph = "returned" /\ fails = 0)
          => /\ DOMAIN db.blocks = gap.s0 \cup Range(gap.missingHeights)
             /\ gap.importedCount = Len(gap.missingHeights)
             /\ \A h \in Range(gap.missingHeights) :
                   h <= ledgerTip => LedgerImported(db, h)
             /\ missingHeights(db, getMinBlockHeight(db), getMaxBlockHeight(db)) = <<>>)
    /\ [][\A h \in DOMAIN db.blocks :
             h \in DOMAIN db'.blocks /\ db'.blocks[h] = db.blocks[h]]_vars

\* A run over two or more missing heights, all served by both sources, has
\* returned.
C15_Witness ==
    /\ gap.ph = "returned"
    /\ fails = 0
    /\ Len(gap.missingHeights) >= 2
    /\ \A h \in Range(gap.missingHeights) : h <= ledgerTip

SeqRow(h, led) ==
    LET a == MergeDb(EmptyDb, insertBlock(EmptyDb, EmptyDb, h, ChainAt(scenario, h), 0))
        b == MergeDb(a, updateFinalizedBlock(a, EmptyDb, NormHash(ChainAt(scenario, h).hash)))
        c == IF led THEN MergeDb(b, insertGraphQLBlock(b, EmptyDb, LedgerAt(h), 0)) ELSE b
    IN c.blocks[h]

\* Two blocks rows agree in every column but the id.
SameCols(r1, r2) == [r1 EXCEPT !.id = 0] = [r2 EXCEPT !.id = 0]

\* C17 (concurrent head handlers): importFinalizedBlock(h) found no row of
\* h when its UPDATE ran, importNewBlock(h) has committed the row since, and
\* the handler now ends its turn for h, no statement having failed: both
\* have run, and the blocks row of h has the column values (is_finalized =
\* TRUE among them) it has when the new-head import runs wholly before the
\* finalized-head import.
C17_SameAsNewThenFinalized ==
    [][\A h \in ImpHeights :
          (/\ fin.ph = "ledger" /\ fin.h = h /\ Head(fin.todo) = h
           /\ fin.was = "absent" /\ h \in DOMAIN db.blocks /\ h \notin nb
           /\ fin' # fin /\ fails = 0 /\ fails' = 0)
              => /\ h \in DOMAIN db'.blocks
                 /\ SameCols(db'.blocks[h], SeqRow(h, LedgerImported(db', h)))]_vars

\* The transaction's only contract action is a ContractCall of entry point
\* "swap" with two unshielded balances of different token types.
SwapWithTwoTokens ==
    /\ Len(ca.contractActions) = 1
    /\ ca.contractActions[1].typename = "ContractCall"
    /\ ca.contractActions[1].entryPoint = "swap"
    /\ Len(ca.contractActions[1].unshieldedBalances) = 2
    /\ ca.contractActions[1].unshieldedBalances[1].tokenType
           # ca.contractActions[1].unshieldedBalances[2].tokenType

\* C18 (scenario, contract call): after the import of a transaction whose
\* only contract action is a ContractCall of entry point "swap" with two
\* unshielded balances of different token types, tx_contract_actions holds
\* one row (type ContractCall, entry_point "swap") and
\* tx_contract_action_balances holds two rows, one per token type.
C18_ContractCallRows ==
    (ca.ph = "done" /\ SwapWithTwoTokens)
        => /\ Cardinality(DOMAIN ca.tables.tx_contract_actions) = 1
           /\ \A k \in DOMAIN ca.tables.tx_contract_actions :
                 /\ ca.tables.tx_contract_actions[k].type_name = "ContractCall"
                 /\ ca.tables.tx_contract_actions[k].entry_point = "swap"
           /\ Cardinality(DOMAIN ca.tables.tx_contract_action_balances) = 2
           /\ {ca.tables.tx_contract_action_balances[k].token_type :
                  k \in DOMAIN ca.tables.tx_contract_action_balances} = CaTokenTypes

\* The rows of table t whose key starts with transaction txk.
OfTx(t, txk) == {k \in DOMAIN t : k[1] = txk}

C20_CommitOrder ==
    [][/\ \A h \in DOMAIN pb'["main"].ov.blocks \ DOMAIN pb["main"].ov.blocks :
             \A h2 \in DOMAIN pb["main"].ov.blocks : h > h2
       /\ (pb["main"].ph = "run" /\ pb'["main"].ph = "done")
             => \A h \in DOMAIN pb["main"].ov.blocks :
                   h >= imp.i /\ h \in DOMAIN db'.blocks
       /\ (ipc \in {"loop", "batch"} /\ ipc' \in {"loop", "batch"}) => imp.i <= imp'.i
       /\ (ipc = "batch" /\ ipc' = "loop")
             => \A j \in 1..Len(pb["main"].hs) : pb["main"].hs[j] < imp'.i]_vars

\* A later batch of the run, of two heights or more, has committed.
C20_Witness ==
    /\ ipc = "batch"
    /\ pb["main"].ph = "done"
    /\ Len(pb["main"].hs) >= 2
    /\ imp.i > imp.startHeight

\* The deny-list and the allow-list of the classification rule, read on the
\* names of ClsSections and ClsMethods as strings.
OnDenyList(section, method) ==
    <<section, method>> \in {<<"timestamp", "set">>, <<"parachainSystem", "setValidationData">>,
                             <<"system", "remark">>, <<"system", "remarkWithEvent">>}

HasAllowedPrefix(section, method) ==
    \/ section \in {"balances", "assets", "midnightTx", "compact"}
    \/ /\ section = "utility"
       /\ method \in {"batch", "batchAll", "batchX", "forceBatch", "forceBatchX"}

\* C21 (classification rule): isTransactionLike returns true exactly when
\* section.method is not on the deny-list and either the call is signed or
\* section.method starts with an allow-list prefix; a deny-listed call is
\* excluded even when signed.
C21_ClassificationRule ==
    (call.op = "isTransactionLike" /\ call.ph = "returned")
        => call.res = (/\ ~OnDenyList(call.section, call.method)
                       /\ (call.isSigned \/ HasAllowedPrefix(call.section, call.method)))

\* A signed call on the deny-list has been classified.
C21_Witness ==
    /\ call.op = "isTransactionLike"
    /\ call.ph = "returned"
    /\ call.isSigned
    /\ OnDenyList(call.section, call.method)
    /\ ~call.res

\* C22 (decode failures never abort a block): once the import of a block has
\* run, the block's transaction row is in the store with its raw payload,
\* whatever the types of the transaction and of its dust ledger events.
C22_ImportCommits ==
    (call.op = "importFinalizedBlock" /\ call.runs > 0)
        => /\ call.ph = "committed"
           /\ call.tx.hash \in DOMAIN call.tables.transactions

\* C23 (bounded connection retries): a call of connectToChain makes at most
\* 3 attempts; no attempt follows a successful one, and the call returns
\* with it; every attempt after the first comes after a wait; the call throws
\* only after exactly 3 failed attempts, with no wait after the third.
C23_BoundedRetries ==
    call.op = "connectToChain"
        => /\ call.attempts <= 3
           /\ call.oks <= 1
           /\ call.oks = 1 => (call.ph = "returned" /\ call.attempts = Len(call.errors) + 1)
           /\ call.oks = 0 => call.attempts = Len(call.errors)
           /\ call.ph = "attempting" => call.waits = call.attempts
           /\ call.ph = "waiting" => call.waits = call.attempts - 1
           /\ call.ph = "threw" => (Len(call.errors) = 3 /\ call.waits = 2)
           /\ (call.ph = "returned" /\ call.attempts > 0) => call.oks = 1

\* connectToChain has thrown.
C23_Witness ==
    /\ call.op = "connectToChain"
    /\ call.ph = "threw"
    /\ call.attempts = 3

\* C24 (amount fallback order): the balances.transfer of value 1 at height 2
\* of the transfers scenario has one matching balances.Transfer event of
\* amount 1 and no fee event, so its stored total_input and total_output are
\* the event's amount, with nothing added for the call's arguments.
C24_EventAmountOnly ==
    (scenario = "transfers" /\ "t2" \in DOMAIN db.transactions)
        => /\ db.transactions["t2"].total_input = 1
           /\ db.transactions["t2"].total_output = 1

\* The committed, unshielded, not yet linked outputs of at least amount that
\* address addr owns.
SpendableOf(addr, amount) ==
    {k \in DOMAIN db.tx_outputs :
        /\ k[1] \in DOMAIN db.transactions
        /\ db.tx_outputs[k].account_addr = addr
        /\ db.tx_outputs[k].asset_id = "MID"
        /\ db.tx_outputs[k].value >= amount
        /\ ~db.tx_outputs[k].shielded
        /\ ~Linked(db, k)}

\* C25 (unshielded UTXO match): when indexBlock writes the Input of C's
\* spend of 1 at height 2, its prev_output_id is the first committed,
\* unshielded, unlinked output of value at least 1 that C owns, and null
\* only when C owns none.
C25_PrevOutputOfSpender ==
    [][(/\ scenario = "mixedcase"
        /\ <<"t2", 0>> \notin DOMAIN wk[2].ov.tx_inputs
        /\ <<"t2", 0>> \in DOMAIN wk'[2].ov.tx_inputs)
           => wk'[2].ov.tx_inputs[<<"t2", 0>>].prev_output_id
                  = FirstOutput(db, SpendableOf("C", 1))]_vars

\* The committed, shielded, not yet linked outputs of note commitment c.
PriorShieldedOf(c) ==
    {k \in DOMAIN db.tx_outputs :
        /\ k[1] \in DOMAIN db.transactions
        /\ db.tx_outputs[k].shielded
        /\ db.tx_outputs[k].note_commitment = c
        /\ ~Linked(db, k)}

\* C26 (shielded UTXO match): when indexBlock writes the Input of the
\* shielded spend of commitment n1 at height 2, its prev_output_id is a prior
\* shielded output of commitment n1 that no Input links, whatever its value,
\* and null when there is none.
C26_PriorOutputByCommitment ==
    [][(/\ scenario = "shielded"
        /\ <<"t2", 0>> \notin DOMAIN wk[2].ov.tx_inputs
        /\ <<"t2", 0>> \in DOMAIN wk'[2].ov.tx_inputs)
           => wk'[2].ov.tx_inputs[<<"t2", 0>>].prev_output_id
                  = FirstOutput(db, PriorShieldedOf("n1"))]_vars

\* The rows of table t for transaction id are the entries of the list ios,
\* each at its position.
RowsOfList(t, id, ios) ==
    \A i \in DOMAIN ios :
        /\ <<id, i - 1>> \in DOMAIN t
        /\ t[<<id, i - 1>>].account_addr = LowerOwner(ios[i].owner)
        /\ t[<<id, i - 1>>].value = ios[i].value

\* C27 (created/spent mapping): once a Ledger-Source transaction has been
\* imported, every entry of its unshieldedCreatedOutputs is the tx_outputs row
\* at its position and every entry of its unshieldedSpentOutputs is the
\* tx_inputs row at its position.
C27_CreatedAreOutputs ==
    (call.op = "importFinalizedBlock" /\ call.ph = "committed")
        => LET id == call.tables.transactions[call.tx.hash].id
           IN /\ RowsOfList(call.tables.tx_outputs, id, call.tx.unshieldedCreatedOutputs)
              /\ RowsOfList(call.tables.tx_inputs, id, call.tx.unshieldedSpentOutputs)

\* C28 (contract actions of every kind): after the import of a transaction,
\* tx_contract_actions holds, for every action of the transaction's
\* contractActions list, calls and deploys alike, a row of the action's kind
\* whose index_in_tx is the action's position in the list.
C28_RowPerAction ==
    ca.ph = "done"
        => \A i \in DOMAIN ca.contractActions :
              /\ <<1, i - 1>> \in DOMAIN ca.tables.tx_contract_actions
              /\ ca.tables.tx_contract_actions[<<1, i - 1>>].type_name
                     = ca.contractActions[i].typename

\* C29 (ledger-event uniqueness): after any imports of a transaction, no two
\* of its zswap ledger-event rows share a position or share an event id, and
\* no two of its dust ledger-event rows (one per position) share an event id.
C29_EventRowsUnique ==
    call.op = "importFinalizedBlock"
        => /\ \A k1, k2 \in DOMAIN call.tables.tx_zswap_ledger_events :
                 (k1[1] = k2[1] /\ (k1[2] = k2[2] \/ k1[3] = k2[3])) => k1 = k2
           /\ \A k1, k2 \in DOMAIN call.tables.tx_dust_ledger_events :
                 (/\ k1[1] = k2[1]
                  /\ call.tables.tx_dust_ledger_events[k1].event_id
                         = call.tables.tx_dust_ledger_events[k2].event_id) => k1 = k2

\* C30 (hash normalization): every blocks row holds, as hash and as
\* parent_hash, the chain's hash of its height and of the height below in
\* lower case without the 0x prefix, and every transactions row is keyed by
\* such a form of a chain transaction hash, whichever writer wrote the row
\* last; so the writers store one chain hash as one value.
C30_HashesNormalized ==
    call.op = "write"
        => /\ \A h \in DOMAIN db.blocks :
                 /\ db.blocks[h].hash = NormHash(BlockHashOf(h))
                 /\ db.blocks[h].parent_hash = NormHash(BlockHashOf(h - 1))
           /\ DOMAIN db.transactions \subseteq {NormHash(TxHashOf(h)) : h \in Heights}

\* The extrinsics of the chain in the running scenario whose transaction is
\* keyed txk in the store.
ExtsOfTx(txk) ==
    {e \in UNION {{ChainAt(scenario, h).exts[j] : j \in DOMAIN ChainAt(scenario, h).exts}
                     : h \in 1..MaxHeight} : NormHash(e.hash) = txk}

AbsVal(n) == IF n < 0 THEN 0 - n ELSE n

\* C31 (account-transaction edge): every committed account_tx row of an
\* account and a transaction has direction in, out or self, and its value is
\* the account's net movement in that transaction: what it received minus
\* what it sent, in absolute value.
C31_NetMovement ==
    \A k \in DOMAIN db.account_tx :
        /\ db.account_tx[k].direction \in {1, 2, 3}
        /\ \A e \in ExtsOfTx(k[2]) :
              db.account_tx[k].value = AbsVal(NetOfEvents(e.events, k[1], 1))

\* C36 (no self-consumption): no committed tx_inputs row links, as its
\* prev_output_id, a tx_outputs row of its own transaction.
C36_NoSelfConsumption ==
    \A i \in DOMAIN db.tx_inputs :
        LET prev == db.tx_inputs[i].prev_output_id
        IN prev # NoOutput => prev[1] # i[1]

\* ------------------------------------------------- pool connections in use
\* The store's connection pool as the importer's functions use it: held are
\* the clients checked out of the pool, outer the client a function took
\* with pool.connect(), inner the client of the running withPgClient, open
\* the client whose transaction is in progress, late the number of queries
\* issued on a client that was not checked out when the query was issued.
\* todo counts the withPgClient calls the function still has to make.
MaxPoolClients == 2
MaxPoolImports == 2

PoolClients == 1..MaxPoolClients

PoolCalled(fn, n) ==
    [op |-> "pool", fn |-> fn,
     ph |-> IF fn \in {"detectAndImportMissingBlocks", "startImporting"}
            THEN "called" ELSE "loop",
     todo |-> n, done |-> 0, held |-> {}, outer |-> 0, inner |-> 0, open |-> 0,
     acquired |-> 0, released |-> 0, late |-> 0, threw |-> FALSE]

\* One query on client c: it counts as late when c is not checked out.
PoolQuery(cl, c) == IF c \in cl.held THEN cl ELSE [cl EXCEPT !.late = @ + 1]

\* processBatch and importNewBlock run one withPgClient; importFinalizedBlock
\* runs one for the finality update and one per height it finds at the
\* Ledger Source; the backfill runs one per missing height and
\* startImporting one per batch.
InitPool ==
    /\ RestOff
    /\ \/ \E fn \in {"processBatch", "importNewBlock"} : call = PoolCalled(fn, 1)
       \/ \E n \in 1..(MaxPoolImports + 1) : call = PoolCalled("importFinalizedBlock", n)
       \/ \E fn \in {"detectAndImportMissingBlocks", "startImporting"} :
             \E n \in 0..MaxPoolImports : call = PoolCalled(fn, n)

\* const client = await pool.connect()
PoolConnect ==
    /\ call.op = "pool"
    /\ call.ph = "called"
    /\ \E c \in PoolClients \ call.held :
          call' = [call EXCEPT !.ph = "connected", !.outer = c, !.held = @ \cup {c},
                               !.acquired = @ + 1]
    /\ UNCHANGED callRest

\* startImporting: getMaxBlockHeight(client); client.release()
PoolStartMax ==
    /\ call.op = "pool"
    /\ call.fn = "startImporting"
    /\ call.ph = "connected"
    /\ call' = [PoolQuery(call, call.outer) EXCEPT
                  !.ph = "height", !.held = @ \ {call.outer}, !.released = @ + 1]
    /\ UNCHANGED callRest

\* startImporting: height = min(getFinalizedBlockHeight(),
\* getMaxBlockHeight(client)), then the batch loop starts or is skipped.
PoolStartHeight ==
    /\ call.op = "pool"
    /\ call.ph = "height"
    /\ call' = [PoolQuery(call, call.outer) EXCEPT
                  !.ph = IF call.todo > 0 THEN "loop" ELSE "returned"]
    /\ UNCHANGED callRest

\* detectAndImportMissingBlocks: getMinBlockHeight, getMaxBlockHeight and
\* the generate_series query on client; with nothing missing it returns
\* through the finally.
PoolGapQueries ==
    /\ call.op = "pool"
    /\ call.fn = "detectAndImportMissingBlocks"
    /\ call.ph = "connected"
    /\ call' = [PoolQuery(call, call.outer) EXCEPT
                  !.ph = IF call.todo > 0 THEN "loop" ELSE "finally"]
    /\ UNCHANGED callRest

\* withPgClient: const client = await activePool.connect(); SET search_path
PoolAcquire ==
    /\ call.op = "pool"
    /\ call.ph = "loop"
    /\ call.todo > 0
    /\ \E c \in PoolClients \ call.held :
          call' = [call EXCEPT !.ph = "acquired", !.inner = c, !.held = @ \cup {c},
                               !.acquired = @ + 1]
    /\ UNCHANGED callRest

\* await client.query('BEGIN')
PoolBegin ==
    /\ call.op = "pool"
    /\ call.ph = "acquired"
    /\ call' = [PoolQuery(call, call.inner) EXCEPT !.ph = "in-tx", !.open = call.inner]
    /\ UNCHANGED callRest

\* The callback's writes and await client.query('COMMIT'): it returns.
PoolCommit ==
    /\ call.op = "pool"
    /\ call.ph = "in-tx"
    /\ call' = [PoolQuery(call, call.inner) EXCEPT
                  !.ph = "callback-ended", !.open = 0, !.threw = FALSE]
    /\ UNCHANGED callRest

\* A write fails: await client.query('ROLLBACK'); throw error.
PoolRollback ==
    /\ call.op = "pool"
    /\ call.ph = "in-tx"
    /\ call' = [PoolQuery(call, call.inner) EXCEPT
                  !.ph = "callback-ended", !.open = 0, !.threw = TRUE]
    /\ UNCHANGED callRest

\* Whether the function lets the error of its withPgClient call escape:
\* processBatch, importNewBlock and with them startImporting do, and
\* importFinalizedBlock does for the finality update; the loops of
\* importFinalizedBlock and of the backfill catch it.
PoolEscapes(cl) ==
    /\ cl.threw
    /\ \/ cl.fn \in {"processBatch", "importNewBlock", "startImporting"}
       \/ cl.fn = "importFinalizedBlock" /\ cl.done = 0

\* withPgClient's finally: client.release(), then the function goes on.
PoolRelease ==
    /\ call.op = "pool"
    /\ call.ph = "callback-ended"
    /\ call' = [call EXCEPT
                  !.held = @ \ {call.inner}, !.released = @ + 1, !.inner = 0,
                  !.todo = @ - 1, !.done = @ + 1,
                  !.ph = IF PoolEscapes(call) THEN "threw"
                         ELSE IF call.todo > 1 THEN "loop"
                         ELSE IF call.fn = "detectAndImportMissingBlocks" THEN "finally"
                         ELSE IF call.fn = "startImporting" THEN "refresh"
                         ELSE "returned"]
    /\ UNCHANGED callRest

\* startImporting, after the last batch (processedBlocks >= height -
\* startHeight): height = min(..., getMaxBlockHeight(client)).
PoolStartRefresh ==
    /\ call.op = "pool"
    /\ call.ph = "refresh"
    /\ call' = [PoolQuery(call, call.outer) EXCEPT !.ph = "returned"]
    /\ UNCHANGED callRest

\* detectAndImportMissingBlocks: finally { client.release() }
PoolGapFinally ==
    /\ call.op = "pool"
    /\ call.ph = "finally"
    /\ call' = [call EXCEPT !.ph = "returned", !.held = @ \ {call.outer},
                            !.released = @ + 1]
    /\ UNCHANGED callRest

NextPool ==
    \/ PoolConnect
    \/ PoolStartMax
    \/ PoolStartHeight
    \/ PoolGapQueries
    \/ PoolAcquire
    \/ PoolBegin
    \/ PoolCommit
    \/ PoolRollback
    \/ PoolRelease
    \/ PoolStartRefresh
    \/ PoolGapFinally

SpecPool == InitPool /\ [][NextPool]_vars

\* C32 (connection lifecycle): while the transaction of a block import is in
\* progress its function holds exactly one pool connection, the one of the
\* transaction; no connection is released more often than acquired, and when
\* the function has returned or thrown every connection it acquired has been
\* released once.
C32_OneConnectionPerImport ==
    call.op = "pool"
        => /\ call.ph = "in-tx" => call.held = {call.inner}
           /\ call.released <= call.acquired
           /\ call.ph \in {"returned", "threw"}
                 => call.held = {} /\ call.released = call.acquired

\* C40 (no use after release): no query is issued on a pool connection that
\* has been released to the pool.
C40_NoQueryAfterRelease ==
    call.op = "pool" => call.late = 0

\* -------------------------------------------- getMaxBlockHeightFromGraphQL
\* tip: the highest height of the Ledger Source, which has a block for every
\* height 0..tip (-1: it has no block).
MaxSearchTip == 4
MaxInitialMaxHeight == 4

\* getBlockByHeight(h) yields a block.
HasLedgerBlock(tip, h) == h >= 0 /\ h <= tip

InitMax ==
    /\ RestOff
    /\ \E tip \in (0 - 1)..MaxSearchTip, initialMaxHeight \in 0..MaxInitialMaxHeight :
          call = [op |-> "getMaxBlockHeightFromGraphQL", ph |-> "test", tip |-> tip,
                  initialMaxHeight |-> initialMaxHeight,
                  min |-> 0, max |-> initialMaxHeight, lastValidHeight |-> 0]

\* testBlock = await getBlockByHeight(max): with a block the doubling loop
\* is entered, without one the binary search starts.
MaxTest ==
    /\ call.op = "getMaxBlockHeightFromGraphQL"
    /\ call.ph = "test"
    /\ call' = [call EXCEPT !.ph = IF HasLedgerBlock(call.tip, call.max)
                                   THEN "doubling" ELSE "search"]
    /\ UNCHANGED callRest

\* One turn of while (true): nextHeight = max * 2; with a block there max
\* and lastValidHeight become nextHeight, without one the loop breaks.
MaxDouble ==
    /\ call.op = "getMaxBlockHeightFromGraphQL"
    /\ call.ph = "doubling"
    /\ LET nextHeight == call.max * 2
       IN call' = IF HasLedgerBlock(call.tip, nextHeight)
                  THEN [call EXCEPT !.max = nextHeight, !.lastValidHeight = nextHeight]
                  ELSE [call EXCEPT !.ph = "search"]
    /\ UNCHANGED callRest

\* One turn of while (min <= max) of the binary search.
MaxSearch ==
    /\ call.op = "getMaxBlockHeightFromGraphQL"
    /\ call.ph = "search"
    /\ call.min <= call.max
    /\ LET mid == (call.min + call.max) \div 2
       IN call' = IF HasLedgerBlock(call.tip, mid)
                  THEN [call EXCEPT !.lastValidHeight = mid, !.min = mid + 1]
                  ELSE [call EXCEPT !.max = mid - 1]
    /\ UNCHANGED callRest

\* min > max: return lastValidHeight.
MaxReturn ==
    /\ call.op = "getMaxBlockHeightFromGraphQL"
    /\ call.ph = "search"
    /\ call.min > call.max
    /\ call' = [call EXCEPT !.ph = "returned"]
    /\ UNCHANGED callRest

NextMax ==
    \/ MaxTest
    \/ MaxDouble
    \/ MaxSearch
    \/ MaxReturn

SpecMax == InitMax /\ [][NextMax]_vars

\* C33 (highest ledger height): when the Ledger Source has a block exactly
\* for the heights 0..tip, getMaxBlockHeightFromGraphQL returns tip, whatever
\* initialMaxHeight it is given, and it returns 0 when there is no block.
C33_ReturnsTip ==
    (call.op = "getMaxBlockHeightFromGraphQL" /\ call.ph = "returned")
        => call.lastValidHeight = (IF call.tip < 0 THEN 0 ELSE call.tip)

\* --------------------------------------- overlapping finalized-head handlers
\* subscribeFinalizedHeads calls its callback for every head it delivers and
\* does not wait for the promise of the callback before: the runs of
\* importFinalizedBlock interleave at their awaits. call.hd[i] is run i:
\* its position ph, its height h, its blocksToProcess todo and, as history,
\* start, the queue as it was when the run started. call.ended tells how
\* the run that ended last has ended.
MaxOverlapHeads == 3
MaxOverlapHeight == 2

OvHandlers == {1, 2}
OvHeights == 1..MaxOverlapHeight

IdleOv == [ph |-> "idle", h |-> 0, todo |-> <<>>, start |-> <<>>]

ovRest == <<scenario, nextBlockId, wk, pc, currentBlock, batchEnd, startBlock, cursor,
            inflight, run, heads, failed, lost, cursorRun, ledgerTip, ipc, imp, pb,
            nb, fin, quota, m0, gap, ca, finalizedHeight>>

InitOverlap ==
    /\ RestOff
    /\ call = [op |-> "finalizedHeads", delivered |-> 0, ended |-> "none", hd |-> [i \in OvHandlers |-> IdleOv]]

\* A finalized head of height h is delivered: importFinalizedBlock starts
\* with getBlockData(header).
OvNotify(i, h) ==
    /\ call.op = "finalizedHeads"
    /\ call.hd[i].ph = "idle"
    /\ call.delivered < MaxOverlapHeads
    /\ call' = [call EXCEPT !.delivered = @ + 1,
                            !.hd[i] = [ph |-> "data", h |-> h, todo |-> <<>>,
                                       start |-> pendingGraphQLBlocks]]
    /\ UNCHANGED <<db, fails, pendingGraphQLBlocks, ovRest>>

\* getBlockData has answered.
OvGetBlockData(i) ==
    /\ call.op = "finalizedHeads"
    /\ call.hd[i].ph = "data"
    /\ call' = [call EXCEPT !.hd[i].ph = "update"]
    /\ UNCHANGED <<db, fails, pendingGraphQLBlocks, ovRest>>

\* getBlockData rejects: importFinalizedBlock rejects.
OvGetBlockDataFail(i) ==
    /\ call.op = "finalizedHeads"
    /\ call.hd[i].ph = "data"
    /\ fails < MaxFail
    /\ fails' = fails + 1
    /\ call' = [call EXCEPT !.hd[i] = IdleOv, !.ended = "getBlockData threw"]
    /\ UNCHANGED <<db, pendingGraphQLBlocks, ovRest>>

\* The transaction of updateFinalizedBlock, then blocksToProcess =
\* [blockHeight, ...pendingGraphQLBlocks] and the queue cleared.
OvUpdate(i) ==
    LET hd == call.hd[i]
        ov1 == updateFinalizedBlock(db, EmptyDb, NormHash(ChainAt(scenario, hd.h).hash))
    IN /\ call.op = "finalizedHeads"
       /\ hd.ph = "update"
       /\ db' = MergeDb(db, ov1)
       /\ call' = [call EXCEPT !.hd[i].ph = "ledger",
                               !.hd[i].todo = <<hd.h>> \o pendingGraphQLBlocks]
       /\ pendingGraphQLBlocks' = <<>>
       /\ UNCHANGED <<fails, ovRest>>

\* updateFinalizedBlock fails: ROLLBACK, throw; importFinalizedBlock rejects.
OvUpdateFail(i) ==
    /\ call.op = "finalizedHeads"
    /\ call.hd[i].ph = "update"
    /\ fails < MaxFail
    /\ fails' = fails + 1
    /\ call' = [call EXCEPT !.hd[i] = IdleOv, !.ended = "updateFinalizedBlock threw"]
    /\ UNCHANGED <<db, pendingGraphQLBlocks, ovRest>>

\* The turn of the loop is over: the next height, or the run returns.
OvAfter(cl, i) ==
    IF Tail(cl.hd[i].todo) = <<>>
    THEN [cl EXCEPT !.hd[i] = IdleOv, !.ended = "returned"]
    ELSE [cl EXCEPT !.hd[i].todo = Tail(@)]

\* One turn of the loop over blocksToProcess, the Ledger Source has the
\* block: insertGraphQLBlock in a transaction of its own.
OvLedgerImport(i) ==
    LET hd == call.hd[i]
        h == Head(hd.todo)
        ov1 == insertGraphQLBlock(db, EmptyDb, LedgerAt(h), BlockIdFor(db, h))
    IN /\ call.op = "finalizedHeads"
       /\ hd.ph = "ledger"
       /\ h <= ledgerTip
       /\ db' = MergeDb(db, ov1)
       /\ nextBlockId' = IF h \in DOMAIN db.blocks THEN nextBlockId ELSE nextBlockId + 1
       /\ call' = OvAfter(call, i)
       /\ UNCHANGED <<scenario, fails, idxVars, ledgerTip, ipc, imp, pb, nb, fin,
                      pendingGraphQLBlocks, quota, m0, gap, ca, finalizedHeight>>

\* ... the Ledger Source has no block yet: the height is pushed unless the
\* queue includes it.
OvLedgerQueue(i) ==
    LET hd == call.hd[i]
    IN /\ call.op = "finalizedHeads"
       /\ hd.ph = "ledger"
       /\ Head(hd.todo) > ledgerTip
       /\ pendingGraphQLBlocks' = Enqueue(pendingGraphQLBlocks, Head(hd.todo))
       /\ call' = OvAfter(call, i)
       /\ UNCHANGED <<db, fails, ovRest>>

\* ... the import fails: ROLLBACK, the error is caught and the height is
\* pushed unless the queue includes it.
OvLedgerFail(i) ==
    LET hd == call.hd[i]
    IN /\ call.op = "finalizedHeads"
       /\ hd.ph = "ledger"
       /\ Head(hd.todo) <= ledgerTip
       /\ fails < MaxFail
       /\ fails' = fails + 1
       /\ pendingGraphQLBlocks' = Enqueue(pendingGraphQLBlocks, Head(hd.todo))
       /\ call' = OvAfter(call, i)
       /\ UNCHANGED <<db, ovRest>>

NextOverlap ==
    \/ \E i \in OvHandlers :
          \/ \E h \in OvHeights : OvNotify(i, h)
          \/ OvGetBlockData(i)
          \/ OvGetBlockDataFail(i)
          \/ OvUpdate(i)
          \/ OvUpdateFail(i)
          \/ OvLedgerImport(i)
          \/ OvLedgerQueue(i)
          \/ OvLedgerFail(i)
    \/ LedgerAdvance

SpecOverlap == InitOverlap /\ [][NextOverlap]_vars

\* C34 (no finalized height lost): when a run of importFinalizedBlock ends,
\* by returning or by throwing, its height and every height that was queued
\* when it started are each in the store from the Ledger Source or on
\* pendingGraphQLBlocks.
C34_NoHeightLost ==
    [][call.op = "finalizedHeads"
         => \A i \in OvHandlers :
               (call.hd[i].ph # "idle" /\ call'.hd[i].ph = "idle")
                  => \A x \in {call.hd[i].h} \cup Range(call.hd[i].start) :
                        LedgerImported(db', x) \/ InSeq(pendingGraphQLBlocks', x)]_vars

\* C39 (retry queue without duplicates): pendingGraphQLBlocks holds each
\* height at most once, however the runs of importFinalizedBlock interleave.
C39_QueueHasNoDuplicates ==
    call.op = "finalizedHeads"
        => \A j1, j2 \in 1..Len(pendingGraphQLBlocks) :
              pendingGraphQLBlocks[j1] = pendingGraphQLBlocks[j2] => j1 = j2

\* Two runs overlap on one height: the queue holds the height and the other
\* run is about to queue it as well.
C39_Witness ==
    /\ call.op = "finalizedHeads"
    /\ \E i \in OvHandlers :
          /\ call.hd[i].ph = "ledger"
          /\ Head(call.hd[i].todo) > ledgerTip
          /\ InSeq(pendingGraphQLBlocks, Head(call.hd[i].todo))

\* C35 (every block at or below the finalized head becomes final): under
\* live ingestion without failures, once both handlers are done with every
\* head that is delivered (no handler running, no height queued, no head
\* left to deliver), every persisted block at or below the latest finalized
\* height delivered has is_finalized = TRUE; what is not final by then never
\* becomes final.
C35_FinalInTheEnd ==
    (/\ ipc = "live"
     /\ call = NoCall
     /\ fails = 0
     /\ fin.ph = "idle"
     /\ nb = {}
     /\ pendingGraphQLBlocks = <<>>
     /\ quota.newHead = 0
     /\ (quota.finHead = 0 \/ quota.finNext \notin ImpHeights))
        => \A h \in DOMAIN db.blocks :
              h < quota.finNext => db.blocks[h].is_finalized

\* C37 (gap detection with genesis stored): on a store that is not empty and
\* whose lowest height is 0, detectAndImportMissingBlocks detects every
\* height of [0, max] that the store lacks, and goes on to import them.
C37_GapDetectionFromGenesis ==
    (gap.ph # "boot" /\ gap.ph # "idle" /\ gap.s0 # {} /\ MinOf(gap.s0) = 0)
    => /\ Range(gap.missingHeights) = {h \in 0..MaxOf(gap.s0) : h \notin gap.s0}
       /\ gap.missingHeights # <<>> => gap.ph \in {"run", "returned"}

\* C38 (stopIndexing stops ingestion): once stopIndexing has been called
\* during the catch-up, no step of that run starts an indexBlock: neither a
\* further batch nor the new-head subscription.
C38_NothingStartsAfterStop ==
    [][call.op = "stopIndexing"
         => \A h \in Heights : wk'[h].ph = "fetch" => wk[h].ph = "fetch"]_vars

=============================================================================
